---- MODULE Spec2Model ----
(***************************************************************************)
(* The agent turn engine of MCPLink: the iteration loop of                 *)
(* Agent.chatStream (native function calling) and of                       *)
(* PromptBasedAgent.chatStream (tool calls written as text), the           *)
(* incremental tag parser of the latter, the decoding of a tool call from  *)
(* the full response, and the execution of the calls.                      *)
(*                                                                         *)
(* Text is a sequence of one-character strings, indexed from 0 as in the   *)
(* source (substring, indexOf).  The model output uses lower-case tags     *)
(* only, so the /i flag of the source's regular expressions is not         *)
(* exercised.                                                              *)
(***************************************************************************)
EXTENDS Integers, Sequences, FiniteSets, TLC

-----------------------------------------------------------------------------
(* String primitives of the host language.                                 *)

Min(S) == CHOOSE x \in S : \A y \in S : x <= y

Max0(a, b) == IF a >= b THEN a ELSE b

\* The characters matched by \s and removed by trim().
WS == {" ", "\n", "\t", "\r"}

\* s.startsWith(p, i)
StartsAt(s, p, i) ==
    /\ i >= 0
    /\ i + Len(p) <= Len(s)
    /\ \A k \in 1..Len(p) : s[i + k] = p[k]

\* s.indexOf(p, from): -1 when p does not occur at or after from.
IndexOfFrom(s, p, from) ==
    LET c == {i \in from..(Len(s) - Len(p)) : StartsAt(s, p, i)}
    IN  IF c = {} THEN -1 ELSE Min(c)

IndexOf(s, p) == IndexOfFrom(s, p, 0)

\* s.includes(p)
Includes(s, p) == IndexOf(s, p) # -1

\* s.substring(a, b) and s.substring(a)
Substring(s, a, b) == SubSeq(s, a + 1, b)

SubstringFrom(s, a) == SubSeq(s, a + 1, Len(s))

\* The position reached from i by the greedy \s* of a regular expression.
SkipWs(s, i) ==
    LET stop == {j \in i..Len(s) : j = Len(s) \/ s[j + 1] \notin WS}
    IN  Min(stop)

\* The position before i at which the trailing white space of s[0..i) starts.
SkipWsBack(s, i) ==
    LET stop == {j \in 0..i : j = 0 \/ s[j] \notin WS}
    IN  CHOOSE j \in stop : \A k \in stop : k <= j

TrimStart(s) == SubstringFrom(s, SkipWs(s, 0))

Trim(s) ==
    LET a == SkipWs(s, 0)
        b == SkipWsBack(s, Len(s))
    IN  IF a >= b THEN <<>> ELSE Substring(s, a, b)

\* The position reached from i by [^c]* for the characters of stop.
SkipUntil(s, i, stop) ==
    LET c == {j \in i..Len(s) : j = Len(s) \/ s[j + 1] \in stop}
    IN  Min(c)

\* s.replace(/'/g, '"')
ReplaceQuotes(s) == [k \in 1..Len(s) |-> IF s[k] = "'" THEN "\"" ELSE s[k]]

\* s.split('\n')
RECURSIVE SplitLines(_)
SplitLines(s) ==
    LET nl == IndexOf(s, <<"\n">>)
    IN  IF nl = -1 THEN <<s>>
        ELSE <<Substring(s, 0, nl)>> \o SplitLines(SubstringFrom(s, nl + 1))

-----------------------------------------------------------------------------
(* The literals of the tag language.                                       *)

ThinkOpen == <<"<", "t", "h", "i", "n", "k", ">">>
ThinkOpenSp == <<"<", "t", "h", "i", "n", "k", " ">>
ThinkClose == <<"<", "/", "t", "h", "i", "n", "k", ">">>
ToolCallOpen == <<"<", "t", "o", "o", "l", "_", "c", "a", "l", "l", ">">>
ToolCallClose == <<"<", "/", "t", "o", "o", "l", "_", "c", "a", "l", "l", ">">>
ToolResultOpen == <<"<", "t", "o", "o", "l", "_", "r", "e", "s", "u", "l", "t">>
ToolResultClose ==
    <<"<", "/", "t", "o", "o", "l", "_", "r", "e", "s", "u", "l", "t", ">">>
\* The backquote, which a string literal of this language cannot hold.
Bq == "bq"

Fence == <<Bq, Bq, Bq>>
JsonWord == <<"j", "s", "o", "n">>
TodoOpen == <<"<", "t", "o", "d", "o", " ">>
TodoTag == <<"<", "t", "o", "d", "o">>
TodoClose == <<"<", "/", "t", "o", "d", "o", ">">>
TodoUpdateOpen ==
    <<"<", "t", "o", "d", "o", "_", "u", "p", "d", "a", "t", "e", " ">>
TodoUpdateTag == <<"<", "t", "o", "d", "o", "_", "u", "p", "d", "a", "t", "e">>
NameKey == <<"\"", "n", "a", "m", "e", "\"">>
ArgumentsKey == <<"\"", "a", "r", "g", "u", "m", "e", "n", "t", "s", "\"">>
TitleAttr == <<"t", "i", "t", "l", "e", "=">>
IdAttr == <<"i", "d", "=">>
StatusAttr == <<"s", "t", "a", "t", "u", "s", "=">>
ResultAttr == <<"r", "e", "s", "u", "l", "t", "=">>
QuoteChars == {"\"", "'"}

-----------------------------------------------------------------------------
(* Regular expressions are matched from a position: each piece gives the   *)
(* position after it, or -1 when it does not match there.                  *)

\* a literal
Lit(text, pos, lit) ==
    IF pos >= 0 /\ StartsAt(text, lit, pos) THEN pos + Len(lit) ELSE -1

\* \s*
Ws0(text, pos) == IF pos >= 0 THEN SkipWs(text, pos) ELSE -1

\* \s+
Ws1(text, pos) ==
    IF pos >= 0 /\ SkipWs(text, pos) > pos THEN SkipWs(text, pos) ELSE -1

\* ["']
Quote(text, pos) ==
    IF pos >= 0 /\ pos < Len(text) /\ text[pos + 1] \in QuoteChars
    THEN pos + 1 ELSE -1

\* [^"']*
NotQuote0(text, pos) == IF pos >= 0 THEN SkipUntil(text, pos, QuoteChars) ELSE -1

\* [^"']+
NotQuote1(text, pos) ==
    IF pos >= 0 /\ SkipUntil(text, pos, QuoteChars) > pos
    THEN SkipUntil(text, pos, QuoteChars) ELSE -1

\* The text between two positions; empty when either is -1.
Group(text, from, to) ==
    IF from >= 0 /\ to >= from THEN Substring(text, from, to) ELSE <<>>

-----------------------------------------------------------------------------
(* JSON.parse, for the values the model output contains: objects and       *)
(* strings without escape sequences.  Any other text is a syntax error.    *)

JStr(s) == [t |-> "str", v |-> s]

\* A number inside a tool result.
JNum(n) == [t |-> "num", v |-> n]

JObj(f) == [t |-> "obj", v |-> f]

EmptyObj == JObj(<<>>)

JFail == [ok |-> FALSE, val |-> EmptyObj, pos |-> 0]

JOk(val, pos) == [ok |-> TRUE, val |-> val, pos |-> pos]

\* The string whose closing quote is at j.
JsonStringTo(s, i, j) ==
    IF j = -1 \/ \E k \in (i + 2)..j : s[k] \in {"\n", "\t", "\r"} THEN JFail
    ELSE JOk(JStr(Substring(s, i + 1, j)), j + 1)

JsonString(s, i) ==
    IF StartsAt(s, <<"\"">>, i)
    THEN JsonStringTo(s, i, IndexOfFrom(s, <<"\"">>, i + 1))
    ELSE JFail

RECURSIVE JsonValue(_, _)
RECURSIVE JsonMembers(_, _, _)
RECURSIVE JsonMemberEnd(_, _, _)
RECURSIVE JsonMemberValue(_, _, _, _)
RECURSIVE JsonMemberKey(_, _, _)

\* After a member: the object ends, or another member follows.
JsonMemberEnd(s, e, members) ==
    IF StartsAt(s, <<"}">>, e) THEN JOk(JObj(members), e + 1)
    ELSE IF StartsAt(s, <<",">>, e) THEN JsonMembers(s, SkipWs(s, e + 1), members)
    ELSE JFail

\* A repeated key keeps its last value.
JsonMemberValue(s, key, v, acc) ==
    IF v.ok THEN JsonMemberEnd(s, SkipWs(s, v.pos), (key :> v.val) @@ acc)
    ELSE JFail

JsonMemberKey(s, k, acc) ==
    IF k.ok /\ StartsAt(s, <<":">>, SkipWs(s, k.pos))
    THEN JsonMemberValue(s, k.val.v,
                         JsonValue(s, SkipWs(s, SkipWs(s, k.pos) + 1)), acc)
    ELSE JFail

JsonMembers(s, i, acc) == JsonMemberKey(s, JsonString(s, i), acc)

JsonValue(s, i) ==
    IF StartsAt(s, <<"\"">>, i) THEN JsonString(s, i)
    ELSE IF StartsAt(s, <<"{">>, i)
    THEN IF StartsAt(s, <<"}">>, SkipWs(s, i + 1))
         THEN JOk(EmptyObj, SkipWs(s, i + 1) + 1)
         ELSE JsonMembers(s, SkipWs(s, i + 1), <<>>)
    ELSE JFail

\* Nothing but white space may follow the value.
JsonWhole(s, r) == IF r.ok /\ SkipWs(s, r.pos) = Len(s) THEN r ELSE JFail

JsonParse(s) == JsonWhole(s, JsonValue(s, SkipWs(s, 0)))

\* JavaScript truthiness of a parsed value: the empty string is falsy and
\* every object is truthy.
Truthy(v) == v.t = "obj" \/ v.v # <<>>

NameField == <<"n", "a", "m", "e">>
ArgumentsField == <<"a", "r", "g", "u", "m", "e", "n", "t", "s">>

NoCall == [found |-> FALSE, name |-> <<>>, arguments |-> EmptyObj]

\* if (json.name && typeof json.name === 'string') return {name, arguments || {}}
CallOfJson(json) ==
    IF /\ json.t = "obj"
       /\ NameField \in DOMAIN json.v
       /\ json.v[NameField].t = "str"
       /\ json.v[NameField].v # <<>>
    THEN [found |-> TRUE,
          name |-> json.v[NameField].v,
          arguments |-> IF /\ ArgumentsField \in DOMAIN json.v
                           /\ Truthy(json.v[ArgumentsField])
                        THEN json.v[ArgumentsField]
                        ELSE EmptyObj]
    ELSE NoCall

CallOfParse(r) == IF r.ok THEN CallOfJson(r.val) ELSE NoCall

\* The catch branch: the quotes are normalised and the text is parsed again.
CallOrRetry(first, jsonStr) ==
    IF first.ok THEN CallOfJson(first.val)
    ELSE CallOfParse(JsonParse(ReplaceQuotes(jsonStr)))

tryParseToolCallJson(jsonStr) == CallOrRetry(JsonParse(Trim(jsonStr)), jsonStr)

NoMatch == [found |-> FALSE, text |-> <<>>]

Match(text, from, to) ==
    IF from >= 0 /\ to >= 0 THEN [found |-> TRUE, text |-> Group(text, from, to)]
    ELSE NoMatch

\* text.match(/<tool_call>\s*([\s\S]*?)\s*<\/tool_call>/i): group 1 lies
\* between the first opening tag and the first closing tag after it.
ToolCallTagSpan(text, a, b) ==
    IF b = -1 THEN NoMatch
    ELSE [found |-> TRUE, text |-> Trim(Substring(text, a, b))]

ToolCallTagFrom(text, a) ==
    IF a = -1 THEN NoMatch
    ELSE ToolCallTagSpan(text, a + Len(ToolCallOpen),
                         IndexOfFrom(text, ToolCallClose, a + Len(ToolCallOpen)))

ToolCallTagMatch(text) == ToolCallTagFrom(text, IndexOf(text, ToolCallOpen))

\* The end (exclusive) of the shortest \{[\s\S]*?\} starting at open that is
\* followed by \s* and the literal tail; -1 when there is none.
LazyBraceEnd(text, open, tail) ==
    LET c == {j \in (open + 1)..(Len(text) - 1) :
                 /\ text[j + 1] = "}"
                 /\ StartsAt(text, tail, SkipWs(text, j + 1))}
    IN  IF open < 0 \/ ~StartsAt(text, <<"{">>, open) \/ c = {} THEN -1
        ELSE Min(c) + 1

\* /```(?:json)?\s*\n?\s*(\{[\s\S]*?\})\s*\n?\s*```/i tried at position i:
\* where group 1 starts with and without the word json.
CodeBlockOpenJson(text, i) == Ws0(text, Lit(text, Lit(text, i, Fence), JsonWord))

CodeBlockOpenPlain(text, i) == Ws0(text, Lit(text, i, Fence))

CodeBlockAt(text, i) ==
    IF LazyBraceEnd(text, CodeBlockOpenJson(text, i), Fence) # -1
    THEN Match(text, CodeBlockOpenJson(text, i),
               LazyBraceEnd(text, CodeBlockOpenJson(text, i), Fence))
    ELSE Match(text, CodeBlockOpenPlain(text, i),
               LazyBraceEnd(text, CodeBlockOpenPlain(text, i), Fence))

FirstOf(c) == IF c = {} THEN -1 ELSE Min(c)

CodeBlockMatch(text) ==
    CodeBlockAt(text, FirstOf({i \in 0..(Len(text) - 3) :
                                  CodeBlockAt(text, i).found}))

\* /\{\s*"name"\s*:\s*"[^"]+"\s*,\s*"arguments"\s*:\s*\{[\s\S]*?\}\s*\}/i
\* tried at position i: the position of the brace that opens the arguments.
BareJsonName(text, i) ==
    Lit(text, Ws0(text, Lit(text, Ws0(text, Lit(text, Ws0(text,
        Lit(text, i, <<"{">>)), NameKey)), <<":">>)), <<"\"">>)

BareJsonNameEnd(text, i) ==
    IF BareJsonName(text, i) >= 0
       /\ SkipUntil(text, BareJsonName(text, i), {"\""}) > BareJsonName(text, i)
    THEN Lit(text, SkipUntil(text, BareJsonName(text, i), {"\""}), <<"\"">>)
    ELSE -1

BareJsonArguments(text, i) ==
    Ws0(text, Lit(text, Ws0(text, Lit(text, Ws0(text, Lit(text, Ws0(text,
        BareJsonNameEnd(text, i)), <<",">>)), ArgumentsKey)), <<":">>))

BareJsonEnd(text, inner) == IF inner = -1 THEN -1 ELSE SkipWs(text, inner) + 1

BareJsonAt(text, i) ==
    IF i < 0 THEN NoMatch
    ELSE Match(text, i,
               BareJsonEnd(text, LazyBraceEnd(text, BareJsonArguments(text, i),
                                              <<"}">>)))

BareJsonMatch(text) ==
    BareJsonAt(text, FirstOf({i \in 0..(Len(text) - 1) :
                                 BareJsonAt(text, i).found}))

DecodeMatch(m) == IF m.found THEN tryParseToolCallJson(m.text) ELSE NoCall

FirstFound(r1, r2, r3) ==
    IF r1.found THEN r1 ELSE IF r2.found THEN r2 ELSE r3

\* The three formats, in order; a format whose span does not decode falls
\* through to the next.
parseToolCall(text) ==
    FirstFound(DecodeMatch(ToolCallTagMatch(text)),
               DecodeMatch(CodeBlockMatch(text)),
               DecodeMatch(BareJsonMatch(text)))

-----------------------------------------------------------------------------
(* The checklist directives.                                               *)

Digits == {"0", "1", "2", "3", "4", "5", "6", "7", "8", "9"}

\* The position after a leading \d+\. of s, or 0 when s does not start so.
AfterNumbering(s) ==
    LET d == Min({j \in 0..Len(s) : j = Len(s) \/ s[j + 1] \notin Digits})
    IN  IF d > 0 /\ StartsAt(s, <<".">>, d) THEN d + 1 ELSE 0

\* trimmed.replace(/^[-*]\s*/, '').replace(/^\d+\.\s*/, '').trim()
TodoItemText(trimmed) ==
    LET a == IF Len(trimmed) > 0 /\ trimmed[1] \in {"-", "*"}
             THEN SubstringFrom(trimmed, SkipWs(trimmed, 1)) ELSE trimmed
        n == AfterNumbering(a)
        b == IF n > 0 THEN SubstringFrom(a, SkipWs(a, n)) ELSE a
    IN  Trim(b)

RECURSIVE TodoItems(_)
TodoItems(lines) ==
    IF lines = <<>> THEN <<>>
    ELSE LET trimmed == Trim(Head(lines))
             listed == \/ StartsAt(trimmed, <<"-">>, 0)
                       \/ StartsAt(trimmed, <<"*">>, 0)
                       \/ AfterNumbering(trimmed) > 0
             item == TodoItemText(trimmed)
         IN  (IF listed /\ item # <<>> THEN <<item>> ELSE <<>>)
                 \o TodoItems(Tail(lines))

NoTodo == [found |-> FALSE, title |-> <<>>, items |-> <<>>]

\* /<todo\s+title=["']([^"']+)["']>([\s\S]*?)<\/todo>/i tried at position i:
\* where the title starts and ends, and where the body starts.
TodoTitleFrom(text, i) ==
    Quote(text, Lit(text, Ws1(text, Lit(text, i, TodoTag)), TitleAttr))

TodoTitleTo(text, i) == NotQuote1(text, TodoTitleFrom(text, i))

TodoBodyFrom(text, i) == Lit(text, Quote(text, TodoTitleTo(text, i)), <<">">>)

TodoBodyTo(text, from) ==
    IF from = -1 THEN -1 ELSE IndexOfFrom(text, TodoClose, from)

TodoBlockAt(text, i) ==
    IF i >= 0 /\ TodoBodyTo(text, TodoBodyFrom(text, i)) # -1
    THEN [found |-> TRUE,
          title |-> Group(text, TodoTitleFrom(text, i), TodoTitleTo(text, i)),
          items |-> TodoItems(SplitLines(
                        Group(text, TodoBodyFrom(text, i),
                              TodoBodyTo(text, TodoBodyFrom(text, i)))))]
    ELSE NoTodo

\* if (items.length === 0) return null
NonEmptyTodo(m) == IF m.found /\ Len(m.items) > 0 THEN m ELSE NoTodo

parseTodoList(text) ==
    NonEmptyTodo(TodoBlockAt(text, FirstOf({i \in 0..(Len(text) - 1) :
                                               TodoBlockAt(text, i).found})))

NoUpdate ==
    [found |-> FALSE, id |-> <<>>, status |-> <<>>, result |-> <<>>,
     hasResult |-> FALSE]

\* \s*\/?> at position q: the position after the tag's end.
TagClose(text, q) ==
    IF Lit(text, Ws0(text, q), <<">">>) # -1
    THEN Lit(text, Ws0(text, q), <<">">>)
    ELSE Lit(text, Ws0(text, q), <<"/", ">">>)

\* /<todo_update\s+id=["']([^"']+)["']\s+status=["']([^"']+)["']
\*   (?:\s+result=["']([^"']*)["'])?\s*\/?>/i tried at position i: where
\* each attribute value starts and ends.
UpdateIdFrom(text, i) ==
    Quote(text, Lit(text, Ws1(text, Lit(text, i, TodoUpdateTag)), IdAttr))

UpdateIdTo(text, i) == NotQuote1(text, UpdateIdFrom(text, i))

UpdateStatusFrom(text, i) ==
    Quote(text, Lit(text, Ws1(text, Quote(text, UpdateIdTo(text, i))),
                    StatusAttr))

UpdateStatusTo(text, i) == NotQuote1(text, UpdateStatusFrom(text, i))

UpdateResultFrom(text, i) ==
    Quote(text, Lit(text, Ws1(text, Quote(text, UpdateStatusTo(text, i))),
                    ResultAttr))

UpdateResultTo(text, i) == NotQuote0(text, UpdateResultFrom(text, i))

UpdateWithResult(text, i) ==
    TagClose(text, Quote(text, UpdateResultTo(text, i))) # -1

UpdateWithoutResult(text, i) ==
    TagClose(text, Quote(text, UpdateStatusTo(text, i))) # -1

TodoUpdateAt(text, i) ==
    IF i >= 0 /\ (UpdateWithResult(text, i) \/ UpdateWithoutResult(text, i))
    THEN [found |-> TRUE,
          id |-> Group(text, UpdateIdFrom(text, i), UpdateIdTo(text, i)),
          status |-> Group(text, UpdateStatusFrom(text, i),
                           UpdateStatusTo(text, i)),
          result |-> IF UpdateWithResult(text, i)
                     THEN Group(text, UpdateResultFrom(text, i),
                                UpdateResultTo(text, i))
                     ELSE <<>>,
          hasResult |-> UpdateWithResult(text, i)]
    ELSE NoUpdate

parseTodoUpdate(text) ==
    TodoUpdateAt(text, FirstOf({i \in 0..(Len(text) - 1) :
                                   TodoUpdateAt(text, i).found}))

-----------------------------------------------------------------------------
(* Events.  Every event carries the same fields; a field an event type     *)
(* does not use keeps its default.  Timestamps are left out.               *)

NoResult == JStr(<<>>)

Event(type) ==
    [type |-> type, content |-> <<>>, iteration |-> 0, toolCallId |-> 0,
     toolName |-> <<>>, toolArgs |-> EmptyObj, toolResult |-> NoResult,
     isError |-> FALSE, todoId |-> 0, todoItemId |-> <<>>,
     todoItemStatus |-> <<>>, todoItemResult |-> <<>>]

Delta(type, content) == [Event(type) EXCEPT !.content = content]

IterationEvent(type, iteration) == [Event(type) EXCEPT !.iteration = iteration]

-----------------------------------------------------------------------------
(* PromptBasedAgent.chatStream: the handling of one text-delta chunk.      *)
(* st holds the locals of the iteration and out, the events yielded.       *)

Emit(st, ev) == [st EXCEPT !.out = Append(@, ev)]

\* TEXT_START before the first TEXT_DELTA of the iteration.
EmitText(st, content) ==
    LET s1 == IF st.hasStartedText THEN st
              ELSE Emit([st EXCEPT !.hasStartedText = TRUE], Event("text_start"))
    IN  Emit(s1, Delta("text_delta", content))

\* buffer.match(/<tool_result[^>]*>[\s\S]*?<\/tool_result>/i)
FakeToolResultMatch(buffer) ==
    LET a == IndexOf(buffer, ToolResultOpen)
        g == IF a = -1 THEN -1
             ELSE IndexOfFrom(buffer, <<">">>, a + Len(ToolResultOpen))
        c == IF g = -1 THEN -1 ELSE IndexOfFrom(buffer, ToolResultClose, g + 1)
    IN  IF c = -1 THEN [found |-> FALSE, from |-> 0, to |-> 0]
        ELSE [found |-> TRUE, from |-> a, to |-> c + Len(ToolResultClose)]

\* buffer.match(/(?:^|\n)\s*\{\s*\n?\s*"name"/): the matched text.
JsonMarkerAt(buffer, p) ==
    LET \* \s* also takes the line break the match starts with
        r == SkipWs(buffer, p)
        n == SkipWs(buffer, r + 1)
        ok == /\ (p = 0 \/ StartsAt(buffer, <<"\n">>, p))
              /\ StartsAt(buffer, <<"{">>, r)
              /\ StartsAt(buffer, NameKey, n)
    IN  IF ok THEN [found |-> TRUE, text |-> Substring(buffer, p, n + Len(NameKey))]
        ELSE NoMatch

JsonMarkerMatch(buffer) ==
    LET c == {p \in 0..(Len(buffer) - 1) : JsonMarkerAt(buffer, p).found}
    IN  IF c = {} THEN NoMatch ELSE JsonMarkerAt(buffer, Min(c))

\* The markers found in the buffer, in the order the source lists them.
Markers(buffer) ==
    LET jsonMatch == JsonMarkerMatch(buffer)
        all == << [type |-> "think", pos |-> IndexOf(buffer, ThinkOpen)],
                  [type |-> "tool_call", pos |-> IndexOf(buffer, ToolCallOpen)],
                  [type |-> "code_block", pos |-> IndexOf(buffer, Fence)],
                  [type |-> "json",
                   pos |-> IF jsonMatch.found
                           THEN IndexOf(buffer, jsonMatch.text) ELSE -1],
                  [type |-> "todo", pos |-> IndexOf(buffer, TodoOpen)],
                  [type |-> "todo_update",
                   pos |-> IndexOf(buffer, TodoUpdateOpen)] >>
    IN  SelectSeq(all, LAMBDA m : m.pos # -1)

\* markers.sort((a, b) => a.pos - b.pos)[0]: the sort is stable.
FirstMarker(markers) ==
    LET k == Min({i \in 1..Len(markers) :
                     \A j \in 1..Len(markers) :
                         \/ markers[i].pos < markers[j].pos
                         \/ (markers[i].pos = markers[j].pos /\ i <= j)})
    IN  markers[k]

\* afterBlock.match(/^json\s*\n/) || afterBlock.match(/^\s*\n?\s*\{/)
IsJsonCodeBlock(afterBlock) ==
    \/ /\ StartsAt(afterBlock, JsonWord, 0)
       /\ \E k \in 4..(SkipWs(afterBlock, 4) - 1) : afterBlock[k + 1] = "\n"
    \/ StartsAt(afterBlock, <<"{">>, SkipWs(afterBlock, 0))

Step(st, processed) == [st |-> st, processed |-> processed]

\* The text before the first marker is emitted as text.
EmitBefore(st, pos) ==
    IF /\ pos > 0
       /\ Trim(Substring(st.buffer, 0, pos)) # <<>>
       /\ st.hasEndedThinking
    THEN EmitText(st, Substring(st.buffer, 0, pos))
    ELSE st

OpenThinking(st) ==
    IF st.hasStartedThinking THEN st
    ELSE Emit([st EXCEPT !.hasStartedThinking = TRUE], Event("thinking_start"))

\* updateEnd !== -1 ? updateEnd + 2 : (updateEnd2 !== -1 ? updateEnd2 + 1 : -1)
UpdateEndPos(buffer, pos) ==
    IF IndexOfFrom(buffer, <<"/", ">">>, pos) # -1
    THEN IndexOfFrom(buffer, <<"/", ">">>, pos) + 2
    ELSE IF IndexOfFrom(buffer, <<">">>, pos) # -1
    THEN IndexOfFrom(buffer, <<">">>, pos) + 1
    ELSE -1

\* if (update && currentTodoId)
EmitUpdateWithoutChecklist(st, update) ==
    IF update.found
    THEN Emit(st, [Event("todo_item_update") EXCEPT
                      !.todoId = st.currentTodoId,
                      !.todoItemId = update.id,
                      !.todoItemStatus = update.status,
                      !.todoItemResult = update.result])
    ELSE st

EmitUpdate(st, update) ==
    IF update.found /\ st.currentTodoId # 0
    THEN Emit(st, [Event("todo_item_update") EXCEPT
                      !.todoId = st.currentTodoId,
                      !.todoItemId = update.id,
                      !.todoItemStatus = update.status,
                      !.todoItemResult = update.result])
    ELSE st

UpdateStep(s1, buffer, pos, endPos) ==
    IF endPos # -1
    THEN Step([EmitUpdate(s1, parseTodoUpdate(Substring(buffer, pos, endPos)))
                  EXCEPT !.buffer = SubstringFrom(buffer, endPos)],
              TRUE)
    ELSE Step(s1, FALSE)

\* The branch of the first marker; s1 is the state after the text before it.
MarkerCase(s1, buffer, first) ==
    CASE first.type = "think" ->
           Step([OpenThinking(s1) EXCEPT
                    !.parseState = "think",
                    !.buffer = SubstringFrom(buffer, first.pos + 7)],
                TRUE)
      [] first.type = "tool_call" ->
           Step([s1 EXCEPT !.parseState = "tool_call",
                           !.buffer = SubstringFrom(buffer, first.pos + 11)],
                TRUE)
      [] first.type = "code_block" ->
           IF IsJsonCodeBlock(SubstringFrom(buffer, first.pos + 3))
           THEN Step([s1 EXCEPT !.parseState = "tool_call",
                                !.buffer = SubstringFrom(buffer, first.pos)],
                     TRUE)
           ELSE \* an ordinary code block: the buffer waits
                Step([s1 EXCEPT !.buffer = SubstringFrom(buffer, first.pos)],
                     FALSE)
      [] first.type = "json" ->
           Step([s1 EXCEPT
                    !.parseState = "tool_call",
                    !.buffer = SubstringFrom(buffer,
                                   IndexOfFrom(buffer, <<"{">>, first.pos))],
                TRUE)
      [] first.type = "todo" ->
           Step([s1 EXCEPT !.parseState = "todo",
                           !.buffer = SubstringFrom(buffer, first.pos)],
                TRUE)
      [] first.type = "todo_update" ->
           UpdateStep(s1, buffer, first.pos, UpdateEndPos(buffer, first.pos))

\* parseState === 'normal', a marker was found.
MarkerStep(st, first) == MarkerCase(EmitBefore(st, first.pos), st.buffer, first)

\* parseState === 'normal', no marker and no fabricated tool result.
PlainStep(st) ==
    IF /\ ~Includes(st.buffer, <<"<">>)
       /\ ~Includes(st.buffer, <<Bq>>)
       /\ ~Includes(st.buffer, <<"{">>)
    THEN IF Trim(st.buffer) # <<>> /\ st.hasEndedThinking
         THEN Step([EmitText(st, st.buffer) EXCEPT !.buffer = <<>>], TRUE)
         ELSE IF /\ ~st.hasEndedThinking
                 /\ ~st.hasStartedThinking
                 /\ st.isFirstTextChunk
         THEN \* still deciding whether this is a direct reply
              Step(st, FALSE)
         ELSE Step([st EXCEPT !.buffer = <<>>], TRUE)
    ELSE \* a possible marker that is not complete yet
         Step(st, FALSE)

NormalCase(st, fake, markers) ==
    IF fake.found
    THEN Step([st EXCEPT !.buffer = Substring(st.buffer, 0, fake.from)
                                        \o SubstringFrom(st.buffer, fake.to)],
              TRUE)
    ELSE IF Len(markers) > 0 THEN MarkerStep(st, FirstMarker(markers))
    ELSE PlainStep(st)

\* parseState === 'normal'
NormalStep(st) ==
    NormalCase(st, FakeToolResultMatch(st.buffer), Markers(st.buffer))

\* The characters the think state holds back to detect a split </think>.
ThinkHoldback == 10

\* The think state without the hold-back: a closing tag that is split over
\* two chunks is then emitted as thinking content.
ThinkStepNoHoldback(st) ==
    IF IndexOf(st.buffer, ThinkClose) # -1
    THEN Step([Emit(Emit(st, Delta("thinking_delta",
                                   Substring(st.buffer, 0,
                                             IndexOf(st.buffer, ThinkClose)))),
                    Event("thinking_end"))
                  EXCEPT !.hasEndedThinking = TRUE,
                         !.parseState = "normal",
                         !.buffer = SubstringFrom(st.buffer,
                                        IndexOf(st.buffer, ThinkClose) + 8)],
              TRUE)
    ELSE Step([Emit(st, Delta("thinking_delta", st.buffer))
                  EXCEPT !.buffer = <<>>],
              TRUE)

\* parseState === 'think'
ThinkStep(st) ==
    LET buffer == st.buffer
        thinkEnd == IndexOf(buffer, ThinkClose)
        content == Substring(buffer, 0, thinkEnd)
        safeLength == Max0(0, Len(buffer) - ThinkHoldback)
    IN  IF thinkEnd # -1
        THEN LET s1 == IF content # <<>>
                       THEN Emit(st, Delta("thinking_delta", content)) ELSE st
                 s2 == Emit(s1, Event("thinking_end"))
             IN  Step([s2 EXCEPT !.hasEndedThinking = TRUE,
                                 !.parseState = "normal",
                                 !.buffer = SubstringFrom(buffer, thinkEnd + 8)],
                      TRUE)
        ELSE IF safeLength > 0
        THEN Step([Emit(st, Delta("thinking_delta",
                                  Substring(buffer, 0, safeLength)))
                      EXCEPT !.buffer = SubstringFrom(buffer, safeLength)],
                  TRUE)
        ELSE Step(st, FALSE)

\* String(todoItemCounter) for the counters a checklist reaches.
DigitOf(n) ==
    CASE n = 0 -> "0" [] n = 1 -> "1" [] n = 2 -> "2" [] n = 3 -> "3"
      [] n = 4 -> "4" [] n = 5 -> "5" [] n = 6 -> "6" [] n = 7 -> "7"
      [] n = 8 -> "8" [] n = 9 -> "9"

RECURSIVE NumberText(_)
NumberText(n) ==
    IF n < 10 THEN <<DigitOf(n)>>
    ELSE NumberText(n \div 10) \o <<DigitOf(n % 10)>>

RECURSIVE EmitTodoItems(_, _, _)
EmitTodoItems(st, items, k) ==
    IF k > Len(items) THEN st
    ELSE EmitTodoItems(
             Emit([st EXCEPT !.todoItemCounter = @ + 1],
                  [Event("todo_item_add") EXCEPT
                      !.todoId = st.currentTodoId,
                      !.todoItemId = NumberText(st.todoItemCounter + 1),
                      !.content = items[k],
                      !.todoItemStatus = <<"p", "e", "n", "d", "i", "n", "g">>]),
             items, k + 1)

\* if (parsed && !hasTodoCreated)
CreateTodo(st, parsed, now) ==
    IF parsed.found /\ ~st.hasTodoCreated
    THEN EmitTodoItems(
             Emit([st EXCEPT !.hasTodoCreated = TRUE,
                             !.currentTodoId = now,
                             !.todoItemCounter = 0],
                  [Event("todo_start") EXCEPT
                      !.todoId = now, !.content = parsed.title]),
             parsed.items, 1)
    ELSE st

TodoClosed(st, end, now) ==
    Step([CreateTodo(st, parseTodoList(Substring(st.buffer, 0, end)), now)
             EXCEPT !.parseState = "normal",
                    !.buffer = SubstringFrom(st.buffer, end)],
         TRUE)

\* parseState === 'todo'
TodoStep(st, now) ==
    IF IndexOf(st.buffer, TodoClose) # -1
    THEN TodoClosed(st, IndexOf(st.buffer, TodoClose) + 7, now)
    ELSE Step(st, FALSE)

\* The index of the brace that closes the one the buffer starts with, by
\* counting braces; -1 when the count does not return to 0.
RECURSIVE BraceEnd(_, _, _)
BraceEnd(buffer, i, braceCount) ==
    IF i >= Len(buffer) THEN -1
    ELSE IF buffer[i + 1] = "{" THEN BraceEnd(buffer, i + 1, braceCount + 1)
    ELSE IF buffer[i + 1] = "}"
    THEN IF braceCount - 1 = 0 THEN i
         ELSE BraceEnd(buffer, i + 1, braceCount - 1)
    ELSE BraceEnd(buffer, i + 1, braceCount)

\* The tool_call state closing a bare object at its first closing brace,
\* whatever the nesting.
ToolCallStepFirstBrace(st) ==
    IF IndexOf(st.buffer, ToolCallClose) # -1
    THEN Step([st EXCEPT !.parseState = "normal",
                         !.buffer = SubstringFrom(st.buffer,
                                        IndexOf(st.buffer, ToolCallClose) + 12)],
              TRUE)
    ELSE IF StartsAt(st.buffer, <<"{">>, 0) /\ IndexOf(st.buffer, <<"}">>) # -1
    THEN Step([st EXCEPT !.parseState = "normal",
                         !.buffer = SubstringFrom(st.buffer,
                                        IndexOf(st.buffer, <<"}">>) + 1)],
              TRUE)
    ELSE Step(st, FALSE)

\* parseState === 'tool_call': nothing of the span is emitted.
ToolCallStep(st) ==
    LET buffer == st.buffer
        toolEnd == IndexOf(buffer, ToolCallClose)
        codeEnd == IF StartsAt(buffer, Fence, 0)
                   THEN IndexOfFrom(buffer, Fence, 3) ELSE -1
        jsonEnd == IF StartsAt(buffer, <<"{">>, 0)
                   THEN BraceEnd(buffer, 0, 0) ELSE -1
        Back(rest) == Step([st EXCEPT !.parseState = "normal", !.buffer = rest],
                           TRUE)
    IN  IF toolEnd # -1 THEN Back(SubstringFrom(buffer, toolEnd + 12))
        ELSE IF codeEnd # -1 THEN Back(SubstringFrom(buffer, codeEnd + 3))
        ELSE IF jsonEnd # -1 THEN Back(SubstringFrom(buffer, jsonEnd + 1))
        ELSE Step(st, FALSE)

ParserStep(st, now) ==
    CASE st.parseState = "normal" -> NormalStep(st)
      [] st.parseState = "think" -> ThinkStep(st)
      [] st.parseState = "todo" -> TodoStep(st, now)
      [] st.parseState = "tool_call" -> ToolCallStep(st)

RECURSIVE ProcessBuffer(_, _)

\* The loop goes on while the last step processed something.
ProcessMore(r, now) == IF r.processed THEN ProcessBuffer(r.st, now) ELSE r.st

\* while (processed && buffer.length > 0)
ProcessBuffer(st, now) ==
    IF Len(st.buffer) = 0 THEN st ELSE ProcessMore(ParserStep(st, now), now)

\* The skip-thinking test made on every text-delta before the buffer is
\* processed: a reply that does not open with <think> is a direct reply.
DetectDirectReply(st) ==
    LET trimmedBuffer == TrimStart(st.buffer)
    IN  IF /\ st.isFirstTextChunk
           /\ ~st.hasStartedThinking
           /\ ~st.hasEndedThinking
           /\ Len(trimmedBuffer) >= 7
        THEN [st EXCEPT
                 !.isFirstTextChunk = FALSE,
                 !.hasEndedThinking =
                     ~(\/ StartsAt(trimmedBuffer, ThinkOpen, 0)
                       \/ StartsAt(trimmedBuffer, ThinkOpenSp, 0))]
        ELSE st

\* A text-delta after native reasoning closes the thinking.
CloseNativeReasoning(st) ==
    IF st.hasNativeReasoning /\ ~st.hasEndedThinking
    THEN Emit([st EXCEPT !.hasEndedThinking = TRUE], Event("thinking_end"))
    ELSE st

Buffered(st, textDelta) ==
    [st EXCEPT !.buffer = @ \o textDelta, !.fullResponse = @ \o textDelta]

\* chunk.type === 'text-delta'
OnTextDelta(st, textDelta, now) ==
    ProcessBuffer(
        DetectDirectReply(Buffered(CloseNativeReasoning(st), textDelta)), now)

\* chunk.type === 'reasoning'
OnReasoning(st, textDelta) ==
    IF textDelta # <<>>
    THEN Emit(OpenThinking([st EXCEPT !.hasNativeReasoning = TRUE]),
              Delta("thinking_delta", textDelta))
    ELSE OpenThinking([st EXCEPT !.hasNativeReasoning = TRUE])

\* The rest of the buffer is flushed according to the parser state.
FlushBuffer(st) ==
    IF Trim(st.buffer) = <<>> THEN st
    ELSE IF st.parseState = "think"
    THEN Emit(Emit(st, Delta("thinking_delta", st.buffer)),
              Event("thinking_end"))
    ELSE IF st.parseState = "normal" /\ st.hasEndedThinking
    THEN EmitText(st, st.buffer)
    ELSE st

CloseText(st) == IF st.hasStartedText THEN Emit(st, Event("text_end")) ELSE st

\* chunk.type === 'finish'
OnFinish(st) == CloseText(FlushBuffer(st))

\* The locals of an iteration of PromptBasedAgent.chatStream, as declared.
NewIteration ==
    [fullResponse |-> <<>>, hasStartedThinking |-> FALSE,
     hasEndedThinking |-> FALSE, hasStartedText |-> FALSE,
     hasNativeReasoning |-> FALSE, isFirstTextChunk |-> TRUE,
     buffer |-> <<>>, parseState |-> "normal", currentTodoId |-> 0,
     todoItemCounter |-> 0, hasTodoCreated |-> FALSE, out |-> <<>>]

-----------------------------------------------------------------------------
(* The turn: one call of chatStream.                                       *)

VARIABLES
    engine,         \* "native" (Agent) or "prompt" (PromptBasedAgent)
    maxIterations,  \* this.maxIterations
    matchers,       \* this.immediateResultMatchers (Agent only)
    parallel,       \* this.parallelToolCalls (Agent only)
    enableThinkingPhase, \* this.enableThinkingPhase (Agent only)
    modelStub,      \* what the model may answer in this turn
    allowedTools,   \* options.allowedTools of this call; {} when not given
    link,           \* the MCPLink in front of the engines, if any
    consumer,       \* the caller iterating the AsyncGenerator of the turn
    other,          \* the locals of a second chatStream call on the instance
    iteration,      \* let iteration
    pc,             \* where chatStream stands
    events,         \* the events yielded so far
    messages,       \* const messages
    now,            \* Date.now()
    stream,         \* what the model stream of the iteration still delivers
    pb,             \* the locals of a PromptBasedAgent iteration
    ag,             \* the locals of an Agent iteration
    calls           \* the tool calls of the iteration being executed

vars ==
    <<engine, maxIterations, matchers, parallel, enableThinkingPhase,
      modelStub, allowedTools, link, consumer, other, iteration, pc,
      events, messages, now, stream, pb, ag, calls>>

config ==
    <<engine, maxIterations, matchers, parallel, enableThinkingPhase,
      modelStub, allowedTools, link, consumer, other>>

Message(role, kind, payload) == [role |-> role, kind |-> kind, payload |-> payload]

\* [system, ...history, user]
InitialMessages ==
    <<Message("system", "text", <<>>), Message("user", "text", <<>>)>>

\* The model stream of an iteration: what it still delivers, and whether it
\* is open, has finished or has failed.
NoStream ==
    [text |-> <<>>, reasoning |-> 0, calls |-> <<>>, status |-> "none",
     input |-> <<>>]

State(st) == [st EXCEPT !.out = <<>>]

\* Date.now() may or may not have advanced when an awaited tool call returns.
ClockAdvance == {0, 1}

\* A collected tool call and, once its invocation has ended, its outcome.
\* threw tells whether the invocation threw.
Call(id, name, args) ==
    [toolCallId |-> id, toolName |-> name, args |-> args, state |-> "collected",
     threw |-> FALSE, isError |-> FALSE, result |-> NoResult]

\* What callTool can do in this turn: return a result or throw a message.
Outcomes ==
    {[threw |-> FALSE, value |-> r] : r \in modelStub.results}
        \cup {[threw |-> TRUE, value |-> m] : m \in modelStub.failures}

\* try { result = await callTool(...) } catch { result = message; isError = true }
Returned(call, o) ==
    [call EXCEPT !.state = "returned", !.threw = o.threw, !.isError = o.threw,
                 !.result = o.value]

ToolCallEvent(type, call) ==
    [Event(type) EXCEPT !.toolName = call.toolName,
                        !.toolCallId = call.toolCallId,
                        !.toolArgs = call.args]

ResultEvent(call) ==
    [ToolCallEvent("tool_result", call) EXCEPT
        !.toolArgs = EmptyObj, !.toolResult = call.result,
        !.isError = call.isError]

\* The chunks of the response are cut at the sizes the provider delivers.
ChunkSizes(text) ==
    {n \in 1..Len(text) : n \in modelStub.chunkSizes \/ n = Len(text)}

-----------------------------------------------------------------------------
(* PromptBasedAgent.chatStream                                             *)

\* while (iteration < this.maxIterations) { iteration++; yield ITERATION_START;
\* streamText(...); the locals of the iteration }
PIterationStart ==
    /\ engine = "prompt"
    /\ pc = "loop"
    /\ iteration < maxIterations
    /\ iteration' = iteration + 1
    /\ events' = Append(events, IterationEvent("iteration_start", iteration + 1))
    /\ \E text \in modelStub.responses, r \in 0..modelStub.reasoning :
           stream' = [text |-> text, reasoning |-> r, calls |-> <<>>,
                      status |-> "open", input |-> messages]
    /\ pb' = NewIteration
    /\ calls' = <<>>
    /\ pc' = "stream"
    /\ UNCHANGED <<config, messages, now, ag>>

\* The loop condition fails: the turn is out of iterations.
PLoopExit ==
    /\ engine = "prompt"
    /\ pc = "loop"
    /\ iteration >= maxIterations
    /\ pc' = "complete"
    /\ UNCHANGED <<config, iteration, events, messages, now, stream, pb, ag, calls>>

\* yield COMPLETE
PComplete ==
    /\ engine = "prompt"
    /\ pc = "complete"
    /\ events' = Append(events, IterationEvent("complete", iteration))
    /\ pc' = "done"
    /\ UNCHANGED <<config, iteration, messages, now, stream, pb, ag, calls>>

\* The events a chunk handler yielded reach the consumer; the locals stay.
PYield(st) ==
    /\ events' = events \o st.out
    /\ pb' = State(st)

\* A reasoning chunk of a model with native reasoning.
PReasoningChunk ==
    /\ engine = "prompt"
    /\ pc = "stream"
    /\ stream.reasoning > 0
    /\ \E textDelta \in modelStub.reasoningDeltas :
           PYield(OnReasoning(pb, textDelta))
    /\ stream' = [stream EXCEPT !.reasoning = @ - 1]
    /\ UNCHANGED <<config, iteration, pc, messages, now, ag, calls>>

\* A text-delta chunk: the next n characters of the response.
PTextDelta ==
    /\ engine = "prompt"
    /\ pc = "stream"
    /\ \E n \in ChunkSizes(stream.text) :
           /\ PYield(OnTextDelta(pb, SubSeq(stream.text, 1, n), now))
           /\ stream' = [stream EXCEPT !.text = SubstringFrom(@, n)]
    /\ UNCHANGED <<config, iteration, pc, messages, now, ag, calls>>

\* The finish chunk, after the whole response; the stream ends with it.
PFinish ==
    /\ engine = "prompt"
    /\ pc = "stream"
    /\ stream.text = <<>>
    /\ PYield(OnFinish(pb))
    /\ stream' = [NoStream EXCEPT !.status = "finished"]
    /\ pc' = "post"
    /\ UNCHANGED <<config, iteration, messages, now, ag, calls>>

\* An error chunk: no branch of the chunk dispatch takes it, and the stream
\* ends after it.
PErrorChunk ==
    /\ engine = "prompt"
    /\ pc = "stream"
    /\ modelStub.mayFail
    /\ stream' = [NoStream EXCEPT !.status = "failed"]
    /\ pc' = "post"
    /\ UNCHANGED <<config, iteration, events, messages, now, pb, ag, calls>>

\* const toolCallId = `tool-${Date.now()}`
PromptCall(toolCall, id) == Call(id, toolCall.name, toolCall.arguments)

\* A call is announced and dispatched, or the iteration and the loop end.
\* The engine that announces and runs the decoded call a second time.
PDecodedTwice(toolCall) ==
    IF toolCall.found
    THEN /\ events' = events \o
                <<ToolCallEvent("tool_call_start", PromptCall(toolCall, now)),
                  ToolCallEvent("tool_executing", PromptCall(toolCall, now)),
                  ToolCallEvent("tool_call_start", PromptCall(toolCall, now)),
                  ToolCallEvent("tool_executing", PromptCall(toolCall, now))>>
         /\ calls' = <<[PromptCall(toolCall, now) EXCEPT !.state = "running"]>>
         /\ pc' = "call"
    ELSE /\ events' = Append(events, IterationEvent("iteration_end", iteration))
         /\ calls' = calls
         /\ pc' = "complete"

PDecoded(toolCall) ==
    IF toolCall.found
    THEN /\ events' = events \o
                <<ToolCallEvent("tool_call_start", PromptCall(toolCall, now)),
                  ToolCallEvent("tool_executing", PromptCall(toolCall, now))>>
         /\ calls' = <<[PromptCall(toolCall, now) EXCEPT !.state = "running"]>>
         /\ pc' = "call"
    ELSE /\ events' = Append(events, IterationEvent("iteration_end", iteration))
         /\ calls' = calls
         /\ pc' = "complete"

\* After the stream: the full response is decoded.
PAfterStream ==
    /\ engine = "prompt"
    /\ pc = "post"
    /\ PDecoded(parseToolCall(pb.fullResponse))
    /\ UNCHANGED <<config, iteration, messages, now, stream, pb, ag>>

\* TOOL_RESULT, the assistant message and the tool-result message,
\* ITERATION_END; the loop continues.
PReturned(call) ==
    /\ calls' = <<call>>
    /\ events' = events \o
           <<ResultEvent(call), IterationEvent("iteration_end", iteration)>>
    /\ messages' = messages \o
           <<Message("assistant", "text", pb.fullResponse),
             Message("user", "tool_result",
                     [toolName |-> call.toolName, success |-> ~call.isError,
                      result |-> call.result])>>

\* callTool returns or throws.
PToolReturn ==
    /\ engine = "prompt"
    /\ pc = "call"
    /\ \E o \in Outcomes : PReturned(Returned(calls[1], o))
    /\ \E d \in ClockAdvance : now' = now + d
    /\ pc' = "loop"
    /\ UNCHANGED <<config, iteration, stream, pb, ag>>

-----------------------------------------------------------------------------
(* Agent: matchImmediateResult                                             *)

\* typeof parsed === 'object' && parsed !== null
ObjectOfParse(r) == IF r.ok /\ r.val.t = "obj" THEN r.val ELSE NoResult

\* The result as an object: itself, or what its text parses to.
ResultObject(result) ==
    IF result.t = "str" THEN ObjectOfParse(JsonParse(result.v)) ELSE result

\* A matcher that is met by one of its keys.
MatcherMatchesSomeKey(matcher, resultObj) ==
    \E key \in DOMAIN matcher :
        /\ key \in DOMAIN resultObj.v
        /\ matcher[key].t # "obj"
        /\ resultObj.v[key] = matcher[key]

\* resultObj[key] !== value fails for every key of the matcher; === holds
\* between equal strings or numbers and never between two objects.
MatcherMatches(matcher, resultObj) ==
    \A key \in DOMAIN matcher :
        /\ key \in DOMAIN resultObj.v
        /\ matcher[key].t # "obj"
        /\ resultObj.v[key] = matcher[key]

MatchesAny(ms, resultObj) ==
    /\ resultObj.t = "obj"
    /\ \E i \in 1..Len(ms) : MatcherMatches(ms[i], resultObj)

matchImmediateResult(result) ==
    /\ Len(matchers) > 0
    /\ MatchesAny(matchers, ResultObject(result))

-----------------------------------------------------------------------------
(* Agent.chatStream: the chunk handlers.  st holds the locals of the       *)
(* iteration and out, the events yielded.                                  *)

\* The locals of an iteration of Agent.chatStream, as declared.
NewAgentIteration ==
    [fullText |-> <<>>, reasoningText |-> <<>>, toolCalls |-> <<>>,
     hasStartedText |-> FALSE, hasStartedReasoning |-> FALSE,
     sentToolCallStarts |-> {}, currentToolCall |-> 0, thinkBuffer |-> <<>>,
     isInsideThinkTag |-> FALSE, textBuffer |-> <<>>,
     hasImmediateResult |-> FALSE, thinkingContent |-> <<>>, out |-> <<>>]

AOpenReasoning(st) ==
    IF st.hasStartedReasoning THEN st
    ELSE Emit([st EXCEPT !.hasStartedReasoning = TRUE], Event("thinking_start"))

\* case 'reasoning'
AOnReasoning(st, textDelta) ==
    Emit([AOpenReasoning(st) EXCEPT !.reasoningText = @ \o textDelta],
         Delta("thinking_delta", textDelta))

\* TEXT_START before the first TEXT_DELTA; the text joins fullText.
AEmitText(st, content) ==
    Emit([(IF st.hasStartedText THEN st
           ELSE Emit([st EXCEPT !.hasStartedText = TRUE], Event("text_start")))
             EXCEPT !.fullText = @ \o content],
         Delta("text_delta", content))

AEmitThinking(st, content) ==
    Emit([st EXCEPT !.thinkBuffer = @ \o content,
                    !.reasoningText = @ \o content],
         Delta("thinking_delta", content))

\* Outside a think tag, <think> found at position i.
AThinkOpens(st, i) ==
    [AOpenReasoning(
         [(IF Trim(Substring(st.textBuffer, 0, i)) # <<>>
           THEN AEmitText(st, Substring(st.textBuffer, 0, i)) ELSE st)
             EXCEPT !.isInsideThinkTag = TRUE])
        EXCEPT !.textBuffer = SubstringFrom(st.textBuffer, i + 7),
               !.thinkBuffer = <<>>]

\* Outside a think tag, no '<' in the buffer: it is emitted as text.
APlainText(st) ==
    [AEmitText(IF st.hasStartedReasoning /\ ~st.hasStartedText
               THEN Emit(st, Event("thinking_end")) ELSE st,
               st.textBuffer)
        EXCEPT !.textBuffer = <<>>]

\* Inside a think tag, </think> found at position i.
AThinkCloses(st, i) ==
    [Emit(IF i > 0 THEN AEmitThinking(st, Substring(st.textBuffer, 0, i))
          ELSE st,
          Event("thinking_end"))
        EXCEPT !.isInsideThinkTag = FALSE,
               !.textBuffer = SubstringFrom(st.textBuffer, i + 8)]

ABuffered(st) ==
    IF ~st.isInsideThinkTag
    THEN IF IndexOf(st.textBuffer, ThinkOpen) # -1
         THEN AThinkOpens(st, IndexOf(st.textBuffer, ThinkOpen))
         ELSE IF ~Includes(st.textBuffer, <<"<">>) THEN APlainText(st)
         ELSE st
    ELSE IF IndexOf(st.textBuffer, ThinkClose) # -1
         THEN AThinkCloses(st, IndexOf(st.textBuffer, ThinkClose))
         ELSE IF ~Includes(st.textBuffer, <<"<">>)
         THEN [AEmitThinking(st, st.textBuffer) EXCEPT !.textBuffer = <<>>]
         ELSE st

\* case 'text-delta'
AOnTextDelta(st, delta) == ABuffered([st EXCEPT !.textBuffer = @ \o delta])

\* case 'tool-call': announced and collected once per id.
AOnToolCall(st, chunk) ==
    IF chunk.toolCallId \notin st.sentToolCallStarts
    THEN Emit([st EXCEPT
                  !.sentToolCallStarts = @ \cup {chunk.toolCallId},
                  !.toolCalls = Append(@, Call(chunk.toolCallId, chunk.toolName,
                                               chunk.args))],
              ToolCallEvent("tool_call_start", chunk))
    ELSE st

\* case 'tool-call-streaming-start': the call becomes the current one and
\* is announced, without arguments, once per id; it is not collected.
AOnToolCallStreamingStart(st, chunk) ==
    IF chunk.toolCallId \notin st.sentToolCallStarts
    THEN Emit([st EXCEPT
                  !.currentToolCall = chunk.toolCallId,
                  !.sentToolCallStarts = @ \cup {chunk.toolCallId}],
              [ToolCallEvent("tool_call_start", chunk) EXCEPT
                  !.toolArgs = EmptyObj])
    ELSE [st EXCEPT !.currentToolCall = chunk.toolCallId]

\* case 'tool-call-delta': a piece of the argument text of the current call.
AOnToolCallDelta(st, argsTextDelta) ==
    IF st.currentToolCall # 0
    THEN Emit(st, [Event("tool_call_delta") EXCEPT
                      !.toolCallId = st.currentToolCall,
                      !.content = argsTextDelta])
    ELSE st

\* The rest of the text buffer is flushed.
AFlush(st) ==
    IF st.textBuffer = <<>> THEN st
    ELSE IF st.isInsideThinkTag
    THEN [Emit([st EXCEPT !.reasoningText = @ \o st.textBuffer],
               Delta("thinking_delta", st.textBuffer))
             EXCEPT !.textBuffer = <<>>]
    ELSE [AEmitText(st, st.textBuffer) EXCEPT !.textBuffer = <<>>]

ACloseThinking(st) ==
    IF st.isInsideThinkTag \/ (st.hasStartedReasoning /\ ~st.hasStartedText)
    THEN Emit([st EXCEPT !.isInsideThinkTag = FALSE], Event("thinking_end"))
    ELSE st

ACloseText(st) == IF st.hasStartedText THEN Emit(st, Event("text_end")) ELSE st

\* case 'finish'
AOnFinish(st) == ACloseText(ACloseThinking(AFlush(st)))

\* case 'error'
AOnError(st) == Emit(st, Event("error"))

-----------------------------------------------------------------------------
(* Agent.chatStream, with the thinking phase disabled (the default).       *)

\* The provider names every call of a turn differently; a chunk that is
\* delivered again keeps its id.
ProviderId(iter, slot) == 10 * iter + slot

ProviderChunk(iter, request) ==
    [toolCallId |-> ProviderId(iter, request.slot), toolName |-> request.toolName,
     args |-> request.args]

ProviderChunks(iter, plan) == [k \in 1..Len(plan) |-> ProviderChunk(iter, plan[k])]

\* mcpTools.filter((tool) => allowedTools.includes(tool.name)): the tools
\* handed to streamText.
Offered(toolName) == allowedTools = {} \/ toolName \in allowedTools

\* The model requests only tools it was handed: streamText delivers no
\* tool-call chunk for any other name.
OfferedPlans ==
    {plan \in modelStub.toolPlans :
        \A k \in 1..Len(plan) : Offered(plan[k].toolName)}

\* The loop of the native engine testing iteration <= maxIterations: one
\* iteration too many.
\* The tools the connected servers expose: mcpManager.getAllTools().
mcpTools == {<<"s">>, <<"t">>}

\* mcpTools filtered by options.allowedTools, converted, is not empty.
hasTools == {tool \in mcpTools : Offered(tool)} # {}

\* summarizeToolResult for a result that holds no array: the name of the
\* tool in the fixed sentence, here in brackets.
summarizeToolResult(toolName, result) == JStr(<<"[">> \o toolName \o <<"]">>)

\* messages.slice(1) with every tool result replaced by its summary.
summarizedMessages(msgs) ==
    [k \in 1..(Len(msgs) - 1) |->
        IF msgs[k + 1].role = "tool"
        THEN [msgs[k + 1] EXCEPT
                 !.payload.result =
                     summarizeToolResult(msgs[k + 1].payload.toolName, @)]
        ELSE msgs[k + 1]]

\* [the reasoning system prompt, ...summarizedMessages]
thinkingMessages(msgs) ==
    <<Message("system", "thinking", <<>>)>> \o summarizedMessages(msgs)

\* The heading of the note, here "[note]" and a line feed.
NotePrefix == <<"[", "n", "o", "t", "e", "]", "\n">>

\* The message list that never gets the note.
DropThinking(msgs, thinkingContent) == msgs

\* if (thinkingContent) messages.push({role: 'assistant', content: ...})
PushThinking(msgs, thinkingContent) ==
    IF thinkingContent # <<>>
    THEN Append(msgs, Message("assistant", "text", NotePrefix \o thinkingContent))
    ELSE msgs

\* iteration++; yield ITERATION_START; the reasoning phase starts: yield
\* THINKING_START; streamText without tools on thinkingMessages.
AThinkingStart ==
    /\ engine = "native"
    /\ pc = "loop"
    /\ iteration < maxIterations
    /\ enableThinkingPhase /\ hasTools
    /\ iteration' = iteration + 1
    /\ events' = events \o <<IterationEvent("iteration_start", iteration + 1),
                             Event("thinking_start")>>
    /\ \E text \in modelStub.thinking :
           stream' = [text |-> text, reasoning |-> 0, calls |-> <<>>,
                      status |-> "thinking",
                      input |-> thinkingMessages(messages)]
    /\ ag' = NewAgentIteration
    /\ calls' = <<>>
    /\ pc' = "thinking"
    /\ UNCHANGED <<config, messages, now, pb>>

\* A text-delta chunk of thinkingStream.fullStream.
AThinkingDelta ==
    /\ engine = "native"
    /\ pc = "thinking"
    /\ \E n \in ChunkSizes(stream.text) :
           /\ events' = Append(events,
                               [Event("thinking_delta") EXCEPT
                                   !.content = SubSeq(stream.text, 1, n)])
           /\ ag' = [ag EXCEPT
                        !.thinkingContent = @ \o SubSeq(stream.text, 1, n)]
           /\ stream' = [stream EXCEPT !.text = SubstringFrom(@, n)]
    /\ UNCHANGED <<config, iteration, pc, messages, now, pb, calls>>

\* thinkingStream has ended: yield THINKING_END, push the note, and start
\* the execution phase: streamText with the tools on messages.
AThinkingEnd ==
    /\ engine = "native"
    /\ pc = "thinking"
    /\ stream.text = <<>>
    /\ events' = Append(events, Event("thinking_end"))
    /\ LET msgs == PushThinking(messages, ag.thinkingContent) IN
           /\ messages' = msgs
           /\ \E text \in modelStub.responses, r \in 0..modelStub.reasoning,
                 plan \in OfferedPlans :
                  stream' = [text |-> text, reasoning |-> r,
                             calls |-> ProviderChunks(iteration, plan),
                             status |-> "open", input |-> msgs]
    /\ ag' = NewAgentIteration
    /\ pc' = "stream"
    /\ UNCHANGED <<config, iteration, now, pb, calls>>

AIterationStartOffByOne ==
    /\ engine = "native"
    /\ pc = "loop"
    /\ iteration <= maxIterations
    /\ ~(enableThinkingPhase /\ hasTools)
    /\ iteration' = iteration + 1
    /\ events' = Append(events, IterationEvent("iteration_start", iteration + 1))
    /\ \E text \in modelStub.responses, r \in 0..modelStub.reasoning,
          plan \in OfferedPlans :
           stream' = [text |-> text, reasoning |-> r,
                      calls |-> ProviderChunks(iteration + 1, plan),
                      status |-> "open", input |-> messages]
    /\ ag' = NewAgentIteration
    /\ calls' = <<>>
    /\ pc' = "stream"
    /\ UNCHANGED <<config, messages, now, pb>>

\* while (iteration < this.maxIterations) { iteration++; yield ITERATION_START;
\* streamText(...); the locals of the iteration }
AIterationStart ==
    /\ engine = "native"
    /\ pc = "loop"
    /\ iteration < maxIterations
    /\ ~(enableThinkingPhase /\ hasTools)
    /\ iteration' = iteration + 1
    /\ events' = Append(events, IterationEvent("iteration_start", iteration + 1))
    /\ \E text \in modelStub.responses, r \in 0..modelStub.reasoning,
          plan \in OfferedPlans :
           stream' = [text |-> text, reasoning |-> r,
                      calls |-> ProviderChunks(iteration + 1, plan),
                      status |-> "open", input |-> messages]
    /\ ag' = NewAgentIteration
    /\ calls' = <<>>
    /\ pc' = "stream"
    /\ UNCHANGED <<config, messages, now, pb>>

\* The loop condition fails: the turn is out of iterations.
ALoopExit ==
    /\ engine = "native"
    /\ pc = "loop"
    /\ iteration >= maxIterations
    /\ pc' = "complete"
    /\ UNCHANGED <<config, iteration, events, messages, now, stream, pb, ag, calls>>

\* A COMPLETE that counts the rounds of the loop after the first.
ACompleteCountingRounds ==
    /\ engine = "native"
    /\ pc = "complete"
    /\ events' = Append(events, IterationEvent("complete", iteration - 1))
    /\ pc' = "done"
    /\ UNCHANGED <<config, iteration, messages, now, stream, pb, ag, calls>>

\* yield COMPLETE
AComplete ==
    /\ engine = "native"
    /\ pc = "complete"
    /\ events' = Append(events, IterationEvent("complete", iteration))
    /\ pc' = "done"
    /\ UNCHANGED <<config, iteration, messages, now, stream, pb, ag, calls>>

AYield(st) ==
    /\ events' = events \o st.out
    /\ ag' = State(st)

AReasoningChunk ==
    /\ engine = "native"
    /\ pc = "stream"
    /\ stream.reasoning > 0
    /\ \E textDelta \in modelStub.reasoningDeltas :
           AYield(AOnReasoning(ag, textDelta))
    /\ stream' = [stream EXCEPT !.reasoning = @ - 1]
    /\ UNCHANGED <<config, iteration, pc, messages, now, pb, calls>>

\* A text-delta chunk: the next n characters of the response.
ATextDelta ==
    /\ engine = "native"
    /\ pc = "stream"
    /\ \E n \in ChunkSizes(stream.text) :
           /\ AYield(AOnTextDelta(ag, SubSeq(stream.text, 1, n)))
           /\ stream' = [stream EXCEPT !.text = SubstringFrom(@, n)]
    /\ UNCHANGED <<config, iteration, pc, messages, now, pb, calls>>

\* A tool-call chunk: the next call the model requests.
AToolCallChunk ==
    /\ engine = "native"
    /\ pc = "stream"
    /\ stream.calls # <<>>
    /\ AYield(AOnToolCall(ag, Head(stream.calls)))
    /\ stream' = [stream EXCEPT !.calls = Tail(@)]
    /\ UNCHANGED <<config, iteration, pc, messages, now, pb, calls>>

\* The argument text pieces a provider streams with a call: at most
\* MaxDeltas per iteration.
MaxDeltas == 1

ArgsText == <<"{", "}">>

\* A tool-call-streaming-start chunk: a provider that streams its calls
\* announces the next call before the tool-call chunk that carries it.
AToolCallStreamingStart ==
    /\ engine = "native"
    /\ pc = "stream"
    /\ modelStub.streaming
    /\ stream.calls # <<>>
    /\ Head(stream.calls).toolCallId \notin ag.sentToolCallStarts
    /\ AYield(AOnToolCallStreamingStart(ag, Head(stream.calls)))
    /\ UNCHANGED <<config, iteration, pc, messages, now, stream, pb, calls>>

\* A tool-call-delta chunk of the call that was announced.
AToolCallDelta ==
    /\ engine = "native"
    /\ pc = "stream"
    /\ modelStub.streaming
    /\ stream.calls # <<>>
    /\ ag.currentToolCall = Head(stream.calls).toolCallId
    /\ Len(SelectSeq(events, LAMBDA e : e.type = "tool_call_delta"
                                          /\ e.toolCallId = ag.currentToolCall))
           < MaxDeltas
    /\ AYield(AOnToolCallDelta(ag, ArgsText))
    /\ UNCHANGED <<config, iteration, pc, messages, now, stream, pb, calls>>

\* The finish chunk, after everything else; the stream ends with it.
AFinish ==
    /\ engine = "native"
    /\ pc = "stream"
    /\ stream.text = <<>>
    /\ stream.calls = <<>>
    /\ AYield(AOnFinish(ag))
    /\ stream' = [NoStream EXCEPT !.status = "finished"]
    /\ pc' = "post"
    /\ UNCHANGED <<config, iteration, messages, now, pb, calls>>

\* An error chunk; the stream ends after it.
AErrorChunk ==
    /\ engine = "native"
    /\ pc = "stream"
    /\ modelStub.mayFail
    /\ AYield(AOnError(ag))
    /\ stream' = [NoStream EXCEPT !.status = "failed"]
    /\ pc' = "post"
    /\ UNCHANGED <<config, iteration, messages, now, pb, calls>>

RECURSIVE Executing(_)
Executing(cs) ==
    IF cs = <<>> THEN <<>>
    ELSE <<ToolCallEvent("tool_executing", Head(cs))>> \o Executing(Tail(cs))

\* toolCalls.map(async ...): every invocation is started.
AllRunning(cs) == [k \in 1..Len(cs) |-> [cs[k] EXCEPT !.state = "running"]]

\* A loop that dispatches every call before awaiting any.
EveryCallRunning(cs) == [k \in 1..Len(cs) |-> [cs[k] EXCEPT !.state = "running"]]

\* The for loop awaits the first invocation only.
FirstRunning(cs) ==
    [k \in 1..Len(cs) |-> [cs[k] EXCEPT !.state = IF k = 1 THEN "running" ELSE @]]

\* After the stream: no call ends the iteration and the loop; else
\* TOOL_EXECUTING for every call, and the calls are dispatched.
AAfterStream ==
    /\ engine = "native"
    /\ pc = "post"
    /\ IF ag.toolCalls = <<>>
       THEN /\ events' = Append(events, IterationEvent("iteration_end", iteration))
            /\ calls' = calls
            /\ pc' = "complete"
       ELSE /\ events' = events \o Executing(ag.toolCalls)
            /\ IF parallel /\ Len(ag.toolCalls) > 1
               THEN calls' = AllRunning(ag.toolCalls) /\ pc' = "parallel"
               ELSE calls' = FirstRunning(ag.toolCalls) /\ pc' = "serial"
    /\ UNCHANGED <<config, iteration, messages, now, stream, pb, ag>>

\* The test that leaves out whether the invocation failed.
IsImmediateAlsoFailed(call) == matchImmediateResult(call.result)

\* if (!isError && this.matchImmediateResult(result))
IsImmediate(call) == ~call.isError /\ matchImmediateResult(call.result)

ImmediateEvent(call) ==
    [Event("immediate_result") EXCEPT !.toolName = call.toolName,
                                      !.toolCallId = call.toolCallId,
                                      !.toolResult = call.result]

\* TOOL_RESULT and, on a match, IMMEDIATE_RESULT.
ResultEvents(call) ==
    IF IsImmediate(call) THEN <<ResultEvent(call), ImmediateEvent(call)>>
    ELSE <<ResultEvent(call)>>

\* The results of a batch in which the first failure ends the emission, as
\* a Promise.all over invocations that are not wrapped would.
RECURSIVE AllResultEventsUntilError(_)
AllResultEventsUntilError(cs) ==
    IF cs = <<>> \/ Head(cs).isError THEN <<>>
    ELSE ResultEvents(Head(cs)) \o AllResultEventsUntilError(Tail(cs))

RECURSIVE AllResultEvents(_)
AllResultEvents(cs) ==
    IF cs = <<>> THEN <<>>
    ELSE ResultEvents(Head(cs)) \o AllResultEvents(Tail(cs))

ToolCallPart(call) ==
    [toolCallId |-> call.toolCallId, toolName |-> call.toolName, args |-> call.args]

ToolMessage(call) ==
    Message("tool", "tool-result",
            [toolCallId |-> call.toolCallId, toolName |-> call.toolName,
             result |-> call.result])

\* The history update that leaves out the assistant message.
IterationMessagesResultsOnly(fullText, cs) ==
    [k \in 1..Len(cs) |-> ToolMessage(cs[k])]

\* The assistant message (text and calls), then a tool message per result.
IterationMessages(fullText, cs) ==
    <<Message("assistant", "content",
              [text |-> fullText,
               calls |-> [k \in 1..Len(cs) |-> ToolCallPart(cs[k])]])>>
        \o [k \in 1..Len(cs) |-> ToolMessage(cs[k])]

\* The end of the iteration in an engine that gives up the turn when a
\* call has failed.
AEndIterationStopOnError(cs, hasImmediateResult) ==
    /\ messages' = IF hasImmediateResult THEN messages
                   ELSE messages \o IterationMessages(ag.fullText, cs)
    /\ pc' = IF hasImmediateResult \/ \E k \in 1..Len(cs) : cs[k].isError
             THEN "complete" ELSE "loop"

\* The end of the iteration without the short circuit.
AEndIterationNoShortCircuit(cs, hasImmediateResult) ==
    /\ messages' = messages \o IterationMessages(ag.fullText, cs)
    /\ pc' = "loop"

\* The iteration ends after the results: an immediate result ends the loop;
\* else the messages are appended and the loop continues.
AEndIteration(cs, hasImmediateResult) ==
    /\ messages' = IF hasImmediateResult THEN messages
                   ELSE messages \o IterationMessages(ag.fullText, cs)
    /\ pc' = IF hasImmediateResult THEN "complete" ELSE "loop"

\* An invocation of the parallel batch returns and its result is emitted at
\* once, without the join.
AParallelReturnEmitting ==
    /\ engine = "native"
    /\ pc = "parallel"
    /\ \E k \in 1..Len(calls), o \in Outcomes :
           /\ calls[k].state = "running"
           /\ calls' = [calls EXCEPT ![k] = Returned(@, o)]
           /\ events' = events \o <<ResultEvent(Returned(calls[k], o))>>
    /\ UNCHANGED <<config, iteration, pc, messages, now, stream, pb, ag>>

\* An invocation of the parallel batch returns or throws.
AParallelReturn ==
    /\ engine = "native"
    /\ pc = "parallel"
    /\ \E k \in 1..Len(calls), o \in Outcomes :
           /\ calls[k].state = "running"
           /\ calls' = [calls EXCEPT ![k] = Returned(@, o)]
    /\ UNCHANGED <<config, iteration, pc, events, messages, now, stream, pb, ag>>

\* await Promise.all(...) resumes: the results are emitted in call order.
AParallelDone ==
    /\ engine = "native"
    /\ pc = "parallel"
    /\ \A k \in 1..Len(calls) : calls[k].state = "returned"
    /\ events' = events \o AllResultEvents(calls)
                        \o <<IterationEvent("iteration_end", iteration)>>
    /\ ag' = [ag EXCEPT !.hasImmediateResult =
                            \E k \in 1..Len(calls) : IsImmediate(calls[k])]
    /\ AEndIteration(calls, \E k \in 1..Len(calls) : IsImmediate(calls[k]))
    /\ UNCHANGED <<config, iteration, now, stream, pb, calls>>

\* The call of the serial loop that is in flight.
Current(cs) == CHOOSE k \in 1..Len(cs) : cs[k].state = "running"

\* The invocation the serial loop awaits has ended: its result is emitted
\* and the next call is dispatched, or the iteration ends.
ASerialStep(k, call) ==
    /\ ag' = [ag EXCEPT !.hasImmediateResult = @ \/ IsImmediate(call)]
    /\ IF k < Len(calls)
       THEN /\ calls' = [calls EXCEPT ![k] = call, ![k + 1].state = "running"]
            /\ events' = events \o ResultEvents(call)
            /\ UNCHANGED <<messages, pc>>
       ELSE /\ calls' = [calls EXCEPT ![k] = call]
            /\ events' = events \o ResultEvents(call)
                   \o <<IterationEvent("iteration_end", iteration)>>
            /\ AEndIteration([calls EXCEPT ![k] = call],
                             ag.hasImmediateResult \/ IsImmediate(call))

ASerialReturn ==
    /\ engine = "native"
    /\ pc = "serial"
    /\ \E o \in Outcomes :
           ASerialStep(Current(calls), Returned(calls[Current(calls)], o))
    /\ UNCHANGED <<config, iteration, now, stream, pb>>

-----------------------------------------------------------------------------
(* The turn starts after construction, before the first iteration.         *)

\* The engine is constructed and called directly, without an MCPLink.
\* What an engine instance was constructed with.
Instance(systemPrompt, model) == [systemPrompt |-> systemPrompt, model |-> model]

MaxCallers == 2

\* A caller of the MCPLink that has not called yet.
NoCaller == [entry |-> "none", at |-> "idle"]

\* The callers, the invocations of mcpManager.startAll, and whether close
\* was called.
NoStart ==
    [callers |-> [c \in 1..MaxCallers |-> NoCaller], startAll |-> 0,
     closed |-> FALSE]

NoLink ==
    [usePromptBasedTools |-> "unset", modelName |-> <<>>, modelId |-> <<>>,
     detectedNativeSupport |-> FALSE, initialized |-> FALSE, entry |-> "none",
     systemPrompt |-> <<>>, agent |-> Instance(<<>>, <<>>),
     promptBasedAgent |-> Instance(<<>>, <<>>), start |-> NoStart]

\* config.systemPrompt, which may be left out.
SystemPromptOf(cfg) ==
    IF "systemPrompt" \in DOMAIN cfg THEN cfg.systemPrompt ELSE <<>>

\* for await (const event of chatStream(...)): the caller asks for the next
\* event as soon as it has one, until the generator returns.
ForAwait == [pulled |-> 0, stopped |-> FALSE, drains |-> TRUE]

\* The locals of one chatStream call: every one of them is a let or const of
\* the generator, none is a field of the instance.
Locals(i, p, evs, msgs, st, parser, agent, cs) ==
    [iteration |-> i, pc |-> p, events |-> evs, messages |-> msgs,
     stream |-> st, pb |-> parser, ag |-> agent, calls |-> cs]

\* A call of chatStream that has not been made.
NotCalled ==
    Locals(0, "idle", <<>>, <<>>, NoStream, NewIteration, NewAgentIteration,
           <<>>)

\* No second call on the instance: alone is where a first call that ran by
\* itself ended, peer the call suspended while the other one runs.
NoTurn == [alone |-> NotCalled, peer |-> NotCalled]

\* chatStream(userMessage, {allowedTools})
TurnStartWith(allowed) ==
    /\ link = NoLink
    /\ enableThinkingPhase = FALSE
    /\ consumer = ForAwait
    /\ other = NoTurn
    /\ allowedTools = allowed
    /\ iteration = 0
    /\ pc = "loop"
    /\ events = <<>>
    /\ messages = InitialMessages
    /\ now = 1
    /\ stream = NoStream
    /\ pb = NewIteration
    /\ ag = NewAgentIteration
    /\ calls = <<>>

\* chatStream(userMessage) without options.
TurnStart == TurnStartWith({})

\* A model stub: what the responses of the turn may be.
Stub(responses, toolPlans, results, failures) ==
    [responses |-> responses, chunkSizes |-> {}, reasoning |-> 0,
     reasoningDeltas |-> {}, mayFail |-> FALSE, streaming |-> FALSE,
     thinking |-> {<<>>},
     toolPlans |-> toolPlans, results |-> results, failures |-> failures]

-----------------------------------------------------------------------------
(* Reading the event sequence.                                             *)

\* The events of the given types, in emission order.
OfTypes(evs, types) == SelectSeq(evs, LAMBDA e : e.type \in types)

Count(evs, type) == Len(OfTypes(evs, {type}))

RECURSIVE Concat(_)
Concat(evs) == IF evs = <<>> THEN <<>> ELSE Head(evs).content \o Concat(Tail(evs))

\* The content of all events of a type, concatenated.
ContentOf(evs, type) == Concat(OfTypes(evs, {type}))

\* The positions in evs of the events of a type.
Positions(evs, type) == {i \in 1..Len(evs) : evs[i].type = type}

Before(evs, a, b) ==
    \A i \in Positions(evs, a) : \A j \in Positions(evs, b) : i < j

\* The last event of the sequence has the given type.
EndsWith(evs, type) == evs # <<>> /\ evs[Len(evs)].type = type

-----------------------------------------------------------------------------
(* The tag round trip: the response <think>hello </think>world, delivered  *)
(* in chunks cut at any boundaries.                                        *)

RoundTripText ==
    <<"<", "t", "h", "i", "n", "k", ">", "h", "e", "l", "l", "o", " ",
      "<", "/", "t", "h", "i", "n", "k", ">", "w", "o", "r", "l", "d">>

InitRoundTrip ==
    /\ engine = "prompt"
    /\ maxIterations = 1
    /\ matchers = <<>>
    /\ parallel = TRUE
    /\ modelStub = [Stub({RoundTripText}, {<<>>}, {}, {}) EXCEPT
                       !.chunkSizes = 1..Len(RoundTripText)]
    /\ TurnStart

NextRoundTrip ==
    \/ PIterationStart
    \/ PTextDelta
    \/ PFinish
    \/ PAfterStream
    \/ PComplete

SpecRoundTrip == InitRoundTrip /\ [][NextRoundTrip]_vars

Hello == <<"h", "e", "l", "l", "o", " ">>

World == <<"w", "o", "r", "l", "d">>

\* C6: the response <think>hello </think>world, cut into chunks at any
\* boundaries, gives one thinking_start, thinking deltas that concatenate
\* to "hello ", one thinking_end, and then text deltas that concatenate to
\* "world".
TagRoundTrip ==
    pc = "done" =>
        /\ Count(events, "thinking_start") = 1
        /\ Count(events, "thinking_end") = 1
        /\ ContentOf(events, "thinking_delta") = Hello
        /\ ContentOf(events, "text_delta") = World
        /\ Before(events, "thinking_start", "thinking_delta")
        /\ Before(events, "thinking_delta", "thinking_end")
        /\ Before(events, "thinking_end", "text_delta")

\* The turn has ended after a chunking that cut both the thinking and the
\* text into several deltas.
TagRoundTripSplit ==
    /\ pc = "done"
    /\ Count(events, "thinking_delta") >= 2
    /\ Count(events, "text_delta") >= 2

-----------------------------------------------------------------------------
(* The bare JSON call: the response {"name":"search","arguments":{"q":"x"}} *)
(* with no surrounding tags, delivered in chunks cut at any boundaries, in  *)
(* each of the two iterations of a turn.                                   *)

BareJsonText ==
    <<"{", "\"", "n", "a", "m", "e", "\"", ":", "\"", "s", "e", "a", "r", "c",
      "h", "\"", ",", "\"", "a", "r", "g", "u", "m", "e", "n", "t", "s", "\"",
      ":", "{", "\"", "q", "\"", ":", "\"", "x", "\"", "}", "}">>

Search == <<"s", "e", "a", "r", "c", "h">>

QueryX == JObj(<<"q">> :> JStr(<<"x">>))

Ok == JStr(<<"o", "k">>)

Boom == JStr(<<"b", "o", "o", "m">>)

InitBareJson ==
    /\ engine = "prompt"
    /\ maxIterations = 2
    /\ matchers = <<>>
    /\ parallel = TRUE
    /\ modelStub = [Stub({BareJsonText}, {<<>>}, {Ok}, {Boom}) EXCEPT
                       !.chunkSizes = 1..Len(BareJsonText)]
    /\ TurnStart

NextBareJson ==
    \/ PIterationStart
    \/ PTextDelta
    \/ PFinish
    \/ PAfterStream
    \/ PToolReturn
    \/ PLoopExit
    \/ PComplete

SpecBareJson == InitBareJson /\ [][NextBareJson]_vars

\* The responses whose stream has ended and that have been decoded.
Decoded == IF pc \in {"stream", "post"} THEN iteration - 1 ELSE iteration

\* C7: the bare JSON response, cut into chunks at any boundaries, never
\* gives a text_delta, and every decoded response gives exactly one
\* tool_call_start, with name search and arguments {q: 'x'}.
BareJsonCall ==
    /\ Count(events, "text_delta") = 0
    /\ Count(events, "tool_call_start") = Decoded
    /\ \A i \in Positions(events, "tool_call_start") :
           /\ events[i].toolName = Search
           /\ events[i].toolArgs = QueryX

\* The turn has ended after the call of each response was announced and
\* executed.
BareJsonCallDone ==
    /\ pc = "done"
    /\ Count(events, "tool_call_start") = 2
    /\ Count(events, "tool_result") = 2

-----------------------------------------------------------------------------
(* Responses that carry the syntax of the text convention where the        *)
(* parser does not expect it, delivered in chunks cut at any boundaries.   *)

\* Sure {"name":"s","arguments":{}}: a call that does not start a line.
MidLineCall ==
    <<"S", "u", "r", "e", " ", "{", "\"", "n", "a", "m", "e", "\"", ":",
      "\"", "s", "\"", ",", "\"", "a", "r", "g", "u", "m", "e", "n", "t",
      "s", "\"", ":", "{", "}", "}">>

\* <tool_result>```r```</tool_result>: a fabricated tool result whose body
\* holds a code block.
ForgedResult ==
    <<"<", "t", "o", "o", "l", "_", "r", "e", "s", "u", "l", "t", ">", Bq,
      Bq, Bq, "r", Bq, Bq, Bq, "<", "/", "t", "o", "o", "l", "_", "r", "e",
      "s", "u", "l", "t", ">">>

\* hi <tool_result>r</tool_result>: a fabricated tool result after a greeting.
GreetingAndResult ==
    <<"h", "i", " ", "<", "t", "o", "o", "l", "_", "r", "e", "s", "u", "l",
      "t", ">", "r", "<", "/", "t", "o", "o", "l", "_", "r", "e", "s", "u",
      "l", "t", ">">>

\* done </think>: a closing tag that nothing opened.
UnopenedClose ==
    <<"d", "o", "n", "e", " ", "<", "/", "t", "h", "i", "n", "k", ">">>

InitSyntax ==
    /\ engine = "prompt"
    /\ maxIterations = 1
    /\ matchers = <<>>
    /\ parallel = TRUE
    /\ modelStub = [Stub({MidLineCall, ForgedResult, GreetingAndResult,
                          UnopenedClose},
                         {<<>>}, {Ok}, {Boom}) EXCEPT
                       !.chunkSizes = 1..Len(ForgedResult)]
    /\ TurnStart

NextSyntax ==
    \/ PIterationStart
    \/ PTextDelta
    \/ PFinish
    \/ PAfterStream
    \/ PToolReturn
    \/ PLoopExit
    \/ PComplete

SpecSyntax == InitSyntax /\ [][NextSyntax]_vars

\* /\{\s*"name"\s*:/ matches somewhere in the text.
HasNameFragment(text) ==
    \E i \in 0..(Len(text) - 1) :
        Lit(text, Ws0(text, Lit(text, Ws0(text, Lit(text, i, <<"{">>)),
                                NameKey)), <<":">>) # -1

HasSyntax(text) ==
    \/ Includes(text, ThinkOpen)
    \/ Includes(text, ThinkClose)
    \/ Includes(text, ToolCallOpen)
    \/ Includes(text, ToolCallClose)
    \/ Includes(text, Fence \o JsonWord)
    \/ HasNameFragment(text)

\* C8: no text_delta contains <think>, </think>, <tool_call>, </tool_call>,
\* ```json or a {"name": fragment, whatever the model writes and however it
\* is cut into chunks.
NoSyntaxInText ==
    \A i \in Positions(events, "text_delta") : ~HasSyntax(events[i].content)

\* The response without its <tool_result ...>...</tool_result> spans.
RECURSIVE WithoutResults(_)
WithoutResults(text) ==
    IF FakeToolResultMatch(text).found
    THEN WithoutResults(Substring(text, 0, FakeToolResultMatch(text).from)
                            \o SubstringFrom(text, FakeToolResultMatch(text).to))
    ELSE text

\* a is what remains of b after dropping characters.
RECURSIVE IsSubsequence(_, _)
IsSubsequence(a, b) ==
    IF a = <<>> THEN TRUE
    ELSE IF b = <<>> THEN FALSE
    ELSE IF Head(a) = Head(b) THEN IsSubsequence(Tail(a), Tail(b))
    ELSE IsSubsequence(a, Tail(b))

\* C9: no character of a <tool_result ...>...</tool_result> span of the
\* response is emitted in a text_delta: the text of a turn is made of the
\* characters outside the spans, however the response is cut into chunks.
NoForgedResultInText ==
    pc = "done" =>
        IsSubsequence(ContentOf(events, "text_delta"),
                      WithoutResults(pb.fullResponse))

-----------------------------------------------------------------------------
(* A turn of two iterations in which the model writes a checklist and a    *)
(* tool call in every response, delivered in chunks cut at any boundaries. *)

\* <todo title="t">
\* - a
\* </todo><tool_call>{"name":"s"}</tool_call>
ChecklistAndCall ==
    <<"<", "t", "o", "d", "o", " ", "t", "i", "t", "l", "e", "=", "\"",
      "t", "\"", ">", "\n", "-", " ", "a", "\n", "<", "/", "t", "o", "d",
      "o", ">", "<", "t", "o", "o", "l", "_", "c", "a", "l", "l", ">", "{",
      "\"", "n", "a", "m", "e", "\"", ":", "\"", "s", "\"", "}", "<", "/",
      "t", "o", "o", "l", "_", "c", "a", "l", "l", ">">>

InitChecklist ==
    /\ engine = "prompt"
    /\ maxIterations = 2
    /\ matchers = <<>>
    /\ parallel = TRUE
    /\ modelStub = [Stub({ChecklistAndCall}, {<<>>}, {Ok}, {}) EXCEPT
                       !.chunkSizes = 1..Len(ChecklistAndCall)]
    /\ TurnStart

NextChecklist ==
    \/ PIterationStart
    \/ PTextDelta
    \/ PFinish
    \/ PAfterStream
    \/ PToolReturn
    \/ PLoopExit
    \/ PComplete

SpecChecklist == InitChecklist /\ [][NextChecklist]_vars

\* C5: over all the iterations of a turn at most one todo_start is emitted,
\* however many well-formed <todo> blocks the model writes; the blocks after
\* the first create nothing.
OneChecklistPerTurn ==
    /\ Count(events, "todo_start") <= 1
    /\ Count(events, "todo_item_add") <= 1

-----------------------------------------------------------------------------
(* The loop: turns of both engines with a model that requests one tool     *)
(* call in every response and whose stream may fail.                       *)

MaxIterations == 2

\* <tool_call>{"name":"s"}</tool_call>
CallText ==
    <<"<", "t", "o", "o", "l", "_", "c", "a", "l", "l", ">", "{", "\"",
      "n", "a", "m", "e", "\"", ":", "\"", "s", "\"", "}", "<", "/", "t",
      "o", "o", "l", "_", "c", "a", "l", "l", ">">>

ToolS == <<"s">>

CardMatcher == <<"t", "y", "p", "e">> :> JStr(<<"c", "a", "r", "d">>)

\* {type: 'card', id: 7}
Card == JObj(CardMatcher @@ (<<"i", "d">> :> JNum(7)))

\* The text {"type":"card"}
CardText ==
    JStr(
    <<"{", "\"", "t", "y", "p", "e", "\"", ":", "\"", "c", "a", "r", "d",
      "\"", "}">>)

Request(slot) == [slot |-> slot, toolName |-> ToolS, args |-> EmptyObj]

\* Matchers are an option of the native engine only.
Matchers(e) == IF e = "native" THEN {<<>>, <<CardMatcher>>} ELSE {<<>>}

\* What the model says before a native tool call.
Preamble == <<"o", "k">>

\* What the model thinks aloud in a reasoning chunk.
Hm == <<"h", "m">>

\* The native stream carries the request as a tool-call chunk next to the
\* text, the text convention carries it in the text.
Responses(e) == IF e = "native" THEN {Preamble} ELSE {CallText}

InitLoop ==
    /\ engine \in {"native", "prompt"}
    /\ maxIterations \in 1..MaxIterations
    /\ matchers \in Matchers(engine)
    /\ parallel = TRUE
    /\ modelStub = [Stub(Responses(engine), {<<Request(1)>>}, {Ok, Card}, {Boom})
                       EXCEPT !.mayFail = TRUE, !.reasoning = 1,
                              !.reasoningDeltas = {Hm}]
    /\ TurnStart

NextLoop ==
    \/ PIterationStart
    \/ PReasoningChunk
    \/ PTextDelta
    \/ PFinish
    \/ PErrorChunk
    \/ PAfterStream
    \/ PToolReturn
    \/ PLoopExit
    \/ PComplete
    \/ AIterationStart
    \/ AReasoningChunk
    \/ ATextDelta
    \/ AToolCallChunk
    \/ AFinish
    \/ AErrorChunk
    \/ AAfterStream
    \/ ASerialReturn
    \/ ALoopExit
    \/ AComplete

SpecLoop == InitLoop /\ [][NextLoop]_vars

\* The iteration events of the turn are the pairs of iterations 1..n.
ExactPairs(n) ==
    /\ Count(events, "iteration_start") = n
    /\ Count(events, "iteration_end") = n
    /\ \A k \in 1..n :
           /\ OfTypes(events, {"iteration_start", "iteration_end"})[2 * k - 1]
                  = IterationEvent("iteration_start", k)
           /\ OfTypes(events, {"iteration_start", "iteration_end"})[2 * k]
                  = IterationEvent("iteration_end", k)

\* The iteration that starts at position i of the events has an event of
\* the given type.
IterationHas(i, type) ==
    \E j \in (i + 1)..Len(events) :
        /\ events[j].type = type
        /\ \A k \in (i + 1)..j : events[k].type # "iteration_start"

EveryIterationHas(type) ==
    \A i \in Positions(events, "iteration_start") : IterationHas(i, type)

StartsBefore(j) ==
    {i \in 1..(j - 1) : /\ events[i].type = "tool_call_start"
                        /\ events[i].toolCallId = events[j].toolCallId}

\* No iteration starts between the positions i and j.
SameIteration(i, j) ==
    \A k \in (i + 1)..j : events[k].type # "iteration_start"

\* C2: every tool_result is preceded by exactly one tool_call_start with
\* its id, and the tool_result events of an iteration come in the order in
\* which the calls were announced.
ResultsFollowStarts ==
    /\ \A j \in Positions(events, "tool_result") :
           Cardinality(StartsBefore(j)) = 1
    /\ \A j1, j2 \in Positions(events, "tool_result") :
           (j1 < j2 /\ SameIteration(j1, j2)) =>
               \A i1 \in StartsBefore(j1), i2 \in StartsBefore(j2) :
                   (SameIteration(i1, j1) /\ SameIteration(i2, j2)) => i1 < i2

\* C10: when the model stream of an iteration has failed, the turn has
\* emitted an error event in that iteration, in both engines.
ModelFailureReported ==
    stream.status = "failed" =>
        \E i \in Positions(events, "iteration_start") :
            /\ events[i].iteration = iteration
            /\ IterationHas(i, "error")

-----------------------------------------------------------------------------
(* Tool execution: turns of two iterations in which the model requests up  *)
(* to MaxCalls calls in a response, every invocation may return or throw,  *)
(* and the native engine has the matcher {type: 'card'}.                   *)

MaxCalls == 2

\* The calls 1..n in order, and the same with the first chunk delivered again.
Plans ==
    {[k \in 1..n |-> Request(k)] : n \in 1..MaxCalls}
        \cup {[k \in 1..(n + 1) |-> Request(IF k > n THEN 1 ELSE k)] :
                 n \in 1..MaxCalls}

\* The native model requests its calls without text; the text convention
\* carries one call in the text.
InitTools ==
    /\ engine \in {"native", "prompt"}
    /\ maxIterations = 2
    /\ matchers = IF engine = "native" THEN <<CardMatcher>> ELSE <<>>
    /\ parallel \in IF engine = "native" THEN BOOLEAN ELSE {TRUE}
    /\ modelStub = Stub(IF engine = "native" THEN {<<>>} ELSE {CallText},
                        Plans, {Ok, Card, CardText}, {Boom, CardText})
    /\ TurnStart

NextTools ==
    \/ PIterationStart
    \/ PTextDelta
    \/ PFinish
    \/ PAfterStream
    \/ PToolReturn
    \/ PLoopExit
    \/ PComplete
    \/ AIterationStart
    \/ AToolCallChunk
    \/ AFinish
    \/ AAfterStream
    \/ AParallelReturn
    \/ AParallelDone
    \/ ASerialReturn
    \/ ALoopExit
    \/ AComplete

SpecTools == InitTools /\ [][NextTools]_vars

\* The position of the last iteration_start; 0 when there is none.
LastStart ==
    Cardinality({i \in 1..Len(events) :
                    \E j \in i..Len(events) : events[j].type = "iteration_start"})

\* The events of the iteration in progress, or of the last one.
LastIteration == SubSeq(events, LastStart + 1, Len(events))

\* The tool execution of the iteration is over.
Executed == pc \in {"loop", "complete", "done"} /\ calls # <<>>

\* C3: when the calls of an iteration have been executed, the iteration has
\* as many tool_result events as calls were announced, one per call and in
\* call order, and isError is true on exactly the results of the
\* invocations that threw, whose result is the failure message.
EveryCallHasItsResult ==
    Executed =>
        /\ Count(LastIteration, "tool_result")
               = Count(LastIteration, "tool_call_start")
        /\ Count(LastIteration, "tool_result") = Len(calls)
        /\ \A k \in 1..Len(calls) :
               /\ OfTypes(LastIteration, {"tool_result"})[k].toolCallId
                      = OfTypes(LastIteration, {"tool_call_start"})[k].toolCallId
               /\ OfTypes(LastIteration, {"tool_result"})[k].isError
                      = calls[k].threw
               /\ OfTypes(LastIteration, {"tool_result"})[k].toolResult
                      = calls[k].result

\* A batch of two calls has been executed, one invocation threw and the
\* other returned.
OneOfTwoThrew ==
    /\ Executed
    /\ Len(calls) = 2
    /\ \E k \in 1..2 : calls[k].threw /\ ~calls[3 - k].threw

\* The results the matcher {type: 'card'} matches.
MatchesCard(result) == result \in {Card, CardText}

ShortCircuitAt(j) ==
    /\ j < Len(events)
    /\ events[j + 1].type = "immediate_result"
    /\ events[j + 1].toolCallId = events[j].toolCallId
    /\ \A k \in (j + 1)..Len(events) : events[k].type # "iteration_start"
    /\ pc = "done" =>
           /\ events[Len(events)].type = "complete"
           /\ events[Len(events) - 1].type = "iteration_end"

-----------------------------------------------------------------------------
(* After a failure of the model stream.                                    *)

\* The events emitted after the first error event of the turn.
AfterError ==
    IF Positions(events, "error") = {} THEN <<>>
    ELSE SubSeq(events, Min(Positions(events, "error")) + 1, Len(events))

\* C11: an error event is terminal: after it the turn emits no
\* iteration_start, no tool_call_start and no complete event.
ErrorIsTerminal ==
    OfTypes(AfterError, {"iteration_start", "tool_call_start", "complete"}) = <<>>

-----------------------------------------------------------------------------
(* Tool filtering: turns called with allowedTools = ['s'] in which the     *)
(* model names the tool s or the tool t, which the manager also has.       *)

ToolT == <<"t">>

\* <tool_call>{"name":"t"}</tool_call>
CallTextT ==
    <<"<", "t", "o", "o", "l", "_", "c", "a", "l", "l", ">", "{", "\"",
      "n", "a", "m", "e", "\"", ":", "\"", "t", "\"", "}", "<", "/", "t",
      "o", "o", "l", "_", "c", "a", "l", "l", ">">>

RequestT == [slot |-> 2, toolName |-> ToolT, args |-> EmptyObj]

InitAllowed ==
    /\ engine \in {"native", "prompt"}
    /\ maxIterations = 2
    /\ matchers = <<>>
    /\ parallel = TRUE
    /\ modelStub = Stub(IF engine = "native" THEN {Preamble}
                        ELSE {Preamble, CallText, CallTextT},
                        {<<>>, <<Request(1)>>, <<RequestT>>,
                         <<Request(1), RequestT>>},
                        {Ok}, {Boom})
    /\ TurnStartWith({ToolS})

NextAllowed ==
    \/ PIterationStart
    \/ PTextDelta
    \/ PFinish
    \/ PAfterStream
    \/ PToolReturn
    \/ PLoopExit
    \/ PComplete
    \/ AIterationStart
    \/ ATextDelta
    \/ AToolCallChunk
    \/ AFinish
    \/ AAfterStream
    \/ ASerialReturn
    \/ ALoopExit
    \/ AComplete

SpecAllowed == InitAllowed /\ [][NextAllowed]_vars

\* The calls handed to mcpManager.callTool so far in this iteration.
Invoked == {k \in 1..Len(calls) : calls[k].state # "collected"}

\* C12: with a non-empty allowedTools, no tool outside the list is invoked,
\* whatever tool the model's output names.
OnlyAllowedToolsInvoked ==
    allowedTools # {} =>
        \A k \in Invoked : calls[k].toolName \in allowedTools

-----------------------------------------------------------------------------
(* Mode selection: which engine a model name is routed to.                 *)

UpperLetters ==
    <<"A", "B", "C", "D", "E", "F", "G", "H", "I", "J", "K", "L", "M",
      "N", "O", "P", "Q", "R", "S", "T", "U", "V", "W", "X", "Y", "Z">>

LowerLetters ==
    <<"a", "b", "c", "d", "e", "f", "g", "h", "i", "j", "k", "l", "m",
      "n", "o", "p", "q", "r", "s", "t", "u", "v", "w", "x", "y", "z">>

\* The character a pattern with the flag i compares.
ToLower(c) ==
    IF \E i \in 1..26 : UpperLetters[i] = c
    THEN LowerLetters[CHOOSE i \in 1..26 : UpperLetters[i] = c]
    ELSE c

LowerCase(s) == [k \in 1..Len(s) |-> ToLower(s[k])]

\* /^word/i and /word/i
Anchored(word) == [anchored |-> TRUE, word |-> word]

Anywhere(word) == [anchored |-> FALSE, word |-> word]

\* pattern.test(modelId)
PatternTest(pattern, modelId) ==
    IF pattern.anchored THEN StartsAt(LowerCase(modelId), pattern.word, 0)
    ELSE Includes(LowerCase(modelId), pattern.word)

NATIVE_REASONING_PATTERNS ==
    <<Anchored(<<"c", "l", "a", "u", "d", "e", "-", "3">>),
      Anchored(<<"c", "l", "a", "u", "d", "e", "-", "2">>),
      Anchored(<<"o", "1">>),
      Anchored(<<"o", "3">>)>>

PROMPT_BASED_PATTERNS ==
    <<Anywhere(<<"d", "e", "e", "p", "s", "e", "e", "k">>),
      Anchored(<<"g", "p", "t">>),
      Anchored(<<"g", "e", "m", "i", "n", "i">>),
      Anchored(<<"m", "i", "s", "t", "r", "a", "l">>),
      Anchored(<<"l", "l", "a", "m", "a">>),
      Anchored(<<"p", "h", "i", "-">>),
      Anchored(<<"q", "w", "e", "n">>),
      Anchored(<<"m", "i", "x", "t", "r", "a", "l">>),
      Anchored(<<"c", "o", "m", "m", "a", "n", "d", "-", "r">>)>>

MatchesSome(patterns, modelId) ==
    \E i \in 1..Len(patterns) : PatternTest(patterns[i], modelId)

\* The detection with the native pattern set tested first.
detectNativeFirst(modelId) ==
    IF MatchesSome(NATIVE_REASONING_PATTERNS, modelId) THEN TRUE
    ELSE IF MatchesSome(PROMPT_BASED_PATTERNS, modelId) THEN FALSE
    ELSE FALSE

\* TRUE for the native Agent, FALSE for the PromptBasedAgent.
detectNativeToolSupport(modelId) ==
    IF MatchesSome(PROMPT_BASED_PATTERNS, modelId) THEN FALSE
    ELSE IF MatchesSome(NATIVE_REASONING_PATTERNS, modelId) THEN TRUE
    ELSE FALSE

\* config.modelName || config.model.modelId
ModelNameToCheck(cfg) ==
    IF cfg.modelName # <<>> THEN cfg.modelName ELSE cfg.modelId

\* The mode the constructor of MCPLink records.
DetectedNativeSupport(cfg) ==
    IF cfg.usePromptBasedTools = "true" THEN FALSE
    ELSE IF cfg.usePromptBasedTools = "false" THEN TRUE
    ELSE detectNativeToolSupport(ModelNameToCheck(cfg))

\* Model names.

Gpt4o == <<"g", "p", "t", "-", "4", "o">>

Gpt4Upper == <<"G", "P", "T", "-", "4">>

Gpt35 == <<"g", "p", "t", "-", "3", ".", "5", "-", "t", "u", "r", "b", "o">>

Claude3 == <<"c", "l", "a", "u", "d", "e", "-", "3", "-", "o", "p", "u", "s">>

Claude35 == <<"c", "l", "a", "u", "d", "e", "-", "3", "-", "5", "-", "s",
      "o", "n", "n", "e", "t">>

GeminiFlash == <<"g", "e", "m", "i", "n", "i", "-", "1", ".", "5", "-", "f",
      "l", "a", "s", "h">>

GeminiPro == <<"g", "e", "m", "i", "n", "i", "-", "p", "r", "o">>

Mistral == <<"m", "i", "s", "t", "r", "a", "l", "-", "l", "a", "r", "g", "e">>

Mixtral == <<"m", "i", "x", "t", "r", "a", "l", "-", "8", "x", "7", "b">>

DeepSeek == <<"d", "e", "e", "p", "s", "e", "e", "k", "-", "c", "h", "a", "t">>

Qwen == <<"q", "w", "e", "n", "-", "m", "a", "x">>

Llama == <<"l", "l", "a", "m", "a", "-", "3">>

O1 == <<"o", "1", "-", "m", "i", "n", "i">>

Yi == <<"y", "i", "-", "l", "a", "r", "g", "e">>

ClaudeDeepSeek == <<"c", "l", "a", "u", "d", "e", "-", "3", "-", "d", "e",
      "e", "p", "s", "e", "e", "k">>

MyGpt == <<"m", "y", "-", "g", "p", "t">>


ModelNames ==
    {Gpt4o, Gpt4Upper, Gpt35, Claude3, Claude35, GeminiFlash, GeminiPro,
     Mistral, Mixtral, DeepSeek, Qwen, Llama, O1, Yi, ClaudeDeepSeek, MyGpt}

-----------------------------------------------------------------------------
(* MCPLink: the entry points chat and chatStream over the two engines.     *)

\* new MCPLink(cfg): the mode is detected once, at construction.
Construct(cfg) ==
    [usePromptBasedTools |-> cfg.usePromptBasedTools,
     modelName |-> cfg.modelName, modelId |-> cfg.modelId,
     detectedNativeSupport |-> DetectedNativeSupport(cfg),
     initialized |-> FALSE, entry |-> "none",
     systemPrompt |-> SystemPromptOf(cfg),
     agent |-> Instance(SystemPromptOf(cfg), cfg.modelId),
     promptBasedAgent |-> Instance(SystemPromptOf(cfg), cfg.modelId),
     start |-> NoStart]

\* getToolCallingMode(), in the names of the engines.
ToolCallingMode == IF link.detectedNativeSupport THEN "native" ELSE "prompt"

\* The base prompt of the text convention when none is configured, and the
\* rules that follow the base prompt, both abridged.
DefaultBasePrompt == <<"d">>

ConventionRules == <<"#">>

\* `${this.systemPrompt || default}` followed by the rules of the convention.
buildSystemPrompt(systemPrompt) ==
    (IF systemPrompt # <<>> THEN systemPrompt ELSE DefaultBasePrompt)
        \o ConventionRules

\* [system, user] as the engine instance that serves the turn builds it.
TurnMessages(mode) ==
    <<Message("system", "text",
              IF mode = "native" THEN link.agent.systemPrompt
              ELSE buildSystemPrompt(link.promptBasedAgent.systemPrompt)),
      Message("user", "text", <<>>)>>

\* MCPLink.chatStream: initialize, then yield* the chatStream of the agent
\* of the detected mode.
LChatStream ==
    /\ pc = "idle"
    /\ link' = [link EXCEPT !.initialized = TRUE, !.entry = "chatStream"]
    /\ engine' = ToolCallingMode
    /\ messages' = TurnMessages(ToolCallingMode)
    /\ pc' = "loop"
    /\ UNCHANGED <<maxIterations, matchers, parallel,
                   enableThinkingPhase, other, modelStub, allowedTools,
                   consumer, iteration, events, now, stream, pb, ag, calls>>

\* MCPLink.chat: initialize, then this.agent.chat(message, callbacks).
LChat ==
    /\ pc = "idle"
    /\ link' = [link EXCEPT !.initialized = TRUE, !.entry = "chat"]
    /\ engine' = "native"
    /\ messages' = TurnMessages("native")
    /\ pc' = "chat"
    /\ UNCHANGED <<maxIterations, matchers, parallel,
                   enableThinkingPhase, other, modelStub, allowedTools,
                   consumer, iteration, events, now, stream, pb, ag, calls>>

\* The calls of a generateText response.
ChatCalls(iter, plan) ==
    [k \in 1..Len(plan) |->
        Call(ProviderId(iter, plan[k].slot), plan[k].toolName, plan[k].args)]

\* callbacks.onToolCallStart(toolName, toolArgs)
OnToolCallStart(call) == ToolCallEvent("onToolCallStart", call)

\* callbacks.onToolResult(toolName, result, duration)
OnToolResult(call) == [ResultEvent(call) EXCEPT !.type = "onToolResult"]

\* Agent.chat, an iteration: generateText answers with text only, which
\* ends the loop, or with tool calls, of which the first is dispatched.
CIteration ==
    /\ engine = "native"
    /\ pc = "chat"
    /\ iteration < maxIterations
    /\ iteration' = iteration + 1
    /\ \E text \in modelStub.responses, plan \in modelStub.toolPlans :
           IF plan = <<>>
           THEN /\ events' = events \o
                       <<IterationEvent("onIterationStart", iteration + 1),
                         Delta("onTextDelta", text),
                         IterationEvent("onIterationEnd", iteration + 1)>>
                /\ ag' = [NewAgentIteration EXCEPT !.fullText = text]
                /\ calls' = <<>>
                /\ pc' = "done"
           ELSE /\ events' = events \o
                       <<IterationEvent("onIterationStart", iteration + 1),
                         OnToolCallStart(ChatCalls(iteration + 1, plan)[1])>>
                /\ ag' = [NewAgentIteration EXCEPT !.fullText = text]
                /\ calls' = FirstRunning(ChatCalls(iteration + 1, plan))
                /\ pc' = "chat-call"
    /\ UNCHANGED <<config, messages, now, stream, pb>>

\* Agent.chat: the invocation the loop awaits has ended; the next call is
\* dispatched, or the messages of the iteration are appended.
CReturned(k, call) ==
    IF k < Len(calls)
    THEN /\ calls' = [calls EXCEPT ![k] = call, ![k + 1].state = "running"]
         /\ events' = events \o
                <<OnToolResult(call), OnToolCallStart(calls[k + 1])>>
         /\ UNCHANGED <<messages, pc>>
    ELSE /\ calls' = [calls EXCEPT ![k] = call]
         /\ events' = events \o
                <<OnToolResult(call), IterationEvent("onIterationEnd", iteration)>>
         /\ messages' = messages \o
                IterationMessages(ag.fullText, [calls EXCEPT ![k] = call])
         /\ pc' = "chat"

CToolReturn ==
    /\ engine = "native"
    /\ pc = "chat-call"
    /\ \E o \in Outcomes :
           CReturned(Current(calls), Returned(calls[Current(calls)], o))
    /\ UNCHANGED <<config, iteration, now, stream, pb, ag>>

\* Agent.chat: the loop condition fails and the result is returned.
CLoopExit ==
    /\ engine = "native"
    /\ pc = "chat"
    /\ iteration >= maxIterations
    /\ pc' = "done"
    /\ UNCHANGED <<config, iteration, events, messages, now, stream, pb,
                   ag, calls>>

-----------------------------------------------------------------------------
(* An MCPLink built for any of the model names, with any setting of        *)
(* usePromptBasedTools, on which chat or chatStream is called once.        *)

\* The identifiers the provider objects carry.
ModelIds == {Gpt4o, Claude3, Yi}

LinkConfigs ==
    [usePromptBasedTools : {"true", "false", "auto", "unset"},
     modelName : ModelNames \cup {<<>>},
     modelId : ModelIds]

InitLink ==
    /\ \E cfg \in LinkConfigs : link = Construct(cfg)
    /\ engine = "none"
    /\ maxIterations = 2
    /\ matchers = <<>>
    /\ parallel = TRUE
    /\ modelStub = Stub({Preamble, CallText}, {<<>>, <<Request(1)>>}, {Ok}, {Boom})
    /\ allowedTools = {}
    /\ enableThinkingPhase = FALSE
    /\ consumer = ForAwait
    /\ other = NoTurn
    /\ iteration = 0
    /\ pc = "idle"
    /\ events = <<>>
    /\ messages = InitialMessages
    /\ now = 1
    /\ stream = NoStream
    /\ pb = NewIteration
    /\ ag = NewAgentIteration
    /\ calls = <<>>

NextLink ==
    \/ LChatStream
    \/ LChat
    \/ CIteration
    \/ CToolReturn
    \/ CLoopExit
    \/ PIterationStart
    \/ PTextDelta
    \/ PFinish
    \/ PAfterStream
    \/ PToolReturn
    \/ PLoopExit
    \/ PComplete
    \/ AIterationStart
    \/ ATextDelta
    \/ AToolCallChunk
    \/ AFinish
    \/ AAfterStream
    \/ ASerialReturn
    \/ ALoopExit
    \/ AComplete

SpecLink == InitLink /\ [][NextLink]_vars

\* The name the detection looks at.
CheckedName == IF link.modelName # <<>> THEN link.modelName ELSE link.modelId

Forced == link.usePromptBasedTools \in {"true", "false"}

\* C13: usePromptBasedTools true gives prompt-based and false gives native,
\* whatever the name; otherwise a name matching the prompt-based set is
\* prompt-based (also when it matches the native set), a name matching the
\* native set only is native, a name matching neither is prompt-based; and
\* chatStream runs the engine of that mode.
ModeSelection ==
    /\ link.usePromptBasedTools = "true" => ~link.detectedNativeSupport
    /\ link.usePromptBasedTools = "false" => link.detectedNativeSupport
    /\ ~Forced =>
           /\ MatchesSome(PROMPT_BASED_PATTERNS, CheckedName)
                  => ~link.detectedNativeSupport
           /\ (/\ ~MatchesSome(PROMPT_BASED_PATTERNS, CheckedName)
               /\ MatchesSome(NATIVE_REASONING_PATTERNS, CheckedName))
                  => link.detectedNativeSupport
           /\ (/\ ~MatchesSome(PROMPT_BASED_PATTERNS, CheckedName)
               /\ ~MatchesSome(NATIVE_REASONING_PATTERNS, CheckedName))
                  => ~link.detectedNativeSupport
    /\ link.entry = "chatStream" =>
           engine = IF link.detectedNativeSupport THEN "native" ELSE "prompt"

\* A turn of chatStream is served by the prompt-based engine for a name
\* that matches both pattern sets, in auto mode.
BothSetsGivePromptBased ==
    /\ link.usePromptBasedTools = "auto"
    /\ link.modelName = ClaudeDeepSeek
    /\ MatchesSome(PROMPT_BASED_PATTERNS, ClaudeDeepSeek)
    /\ MatchesSome(NATIVE_REASONING_PATTERNS, ClaudeDeepSeek)
    /\ link.entry = "chatStream"
    /\ engine = "prompt"
    /\ pc = "done"

\* The names the README routes to the native engine.
DocumentedNative ==
    {Gpt4o, Gpt4Upper, Gpt35, Claude3, Claude35, GeminiFlash, GeminiPro,
     Mistral, Mixtral}

\* The names the README routes to the prompt-based engine, and names it
\* does not list.
DocumentedPromptBased == {DeepSeek, Qwen, Llama, Yi, MyGpt}

\* C14: in auto mode GPT, Claude-3, Gemini and Mistral/Mixtral names are
\* routed to the native engine, and DeepSeek, Qwen, Llama and unknown names
\* to the prompt-based engine.
DocumentedRouting ==
    ~Forced =>
        /\ CheckedName \in DocumentedNative => link.detectedNativeSupport
        /\ CheckedName \in DocumentedPromptBased => ~link.detectedNativeSupport

\* C20: chat drives the engine of the mode, the one chatStream would use.
ChatDrivesModeEngine ==
    link.entry = "chat" => engine = ToolCallingMode

-----------------------------------------------------------------------------
(* Parallel and serial execution of the calls of an iteration.             *)

InFlight == {k \in 1..Len(calls) : calls[k].state = "running"}

\* The calls the tool messages of a message list answer, in order.
ToolMessages(ms) ==
    LET tool == SelectSeq(ms, LAMBDA m : m.role = "tool")
    IN  [k \in 1..Len(tool) |-> tool[k].payload]

\* The ids of a sequence of events or of calls, in order.
IdsOf(seq) == [k \in 1..Len(seq) |-> seq[k].toolCallId]

\* The batch is joined: every call is dispatched at once, and the results
\* of a finished batch are emitted in call order.
BatchJoined ==
    /\ pc = "parallel" =>
           /\ \A k \in 1..Len(calls) : calls[k].state # "collected"
           /\ Count(LastIteration, "tool_result") = 0
    /\ (Executed /\ engine = "native") =>
           IdsOf(OfTypes(LastIteration, {"tool_result"})) = IdsOf(calls)

\* A step taken while the batch is awaited yields no event and appends no
\* message; the step that ends the wait appends the tool messages of the
\* batch in call order.
BatchStep ==
    pc = "parallel" =>
        /\ InFlight # {} => (events' = events /\ messages' = messages)
        /\ messages' # messages =>
               /\ SubSeq(messages', 1, Len(messages)) = messages
               /\ IdsOf(SubSeq(ToolMessages(messages'),
                               Len(ToolMessages(messages)) + 1,
                               Len(ToolMessages(messages'))))
                      = IdsOf(calls)

ResultEmitted(k) ==
    \E j \in Positions(LastIteration, "tool_result") :
        LastIteration[j].toolCallId = calls[k].toolCallId

-----------------------------------------------------------------------------
(* The turn goes on after an iteration that executed tool calls. The       *)
(* consumer keeps pulling: the generator resumed after iteration_end goes  *)
(* round the loop, so an iteration that can start does start.              *)

FairSpecTools ==
    SpecTools /\ WF_vars(AIterationStart) /\ WF_vars(PIterationStart)

\* An iteration that executed calls has just ended, below maxIterations
\* and without an immediate result.
AfterToolIteration ==
    /\ EndsWith(events, "iteration_end")
    /\ Count(LastIteration, "tool_result") > 0
    /\ Count(LastIteration, "immediate_result") = 0
    /\ iteration < maxIterations

\* What the tool messages of the iteration's calls hold.
ResultsOf(cs) ==
    [k \in 1..Len(cs) |->
        [toolCallId |-> cs[k].toolCallId, toolName |-> cs[k].toolName,
         result |-> cs[k].result]]

\* The message list ends with the results of the iteration's calls, the
\* messages of failed calls included.
MessagesExtended ==
    IF engine = "native"
    THEN /\ Len(ToolMessages(messages)) >= Len(calls)
         /\ SubSeq(ToolMessages(messages),
                   Len(ToolMessages(messages)) - Len(calls) + 1,
                   Len(ToolMessages(messages))) = ResultsOf(calls)
    ELSE /\ messages[Len(messages)].kind = "tool_result"
         /\ messages[Len(messages)].payload =
                [toolName |-> calls[1].toolName, success |-> ~calls[1].isError,
                 result |-> calls[1].result]

\* C17: after an iteration that executed tool calls, failed or not, below
\* maxIterations and without an immediate result, the turn is not over:
\* the message list holds the iteration's results and the next
\* iteration_start follows.
ToolCallContinuesTurn ==
    /\ [](AfterToolIteration => (pc = "loop" /\ MessagesExtended))
    /\ \A n \in 1..MaxIterations :
           (AfterToolIteration /\ iteration = n)
               ~> (Count(events, "iteration_start") > n)

\* The second iteration has started after an iteration whose only call
\* failed, and the failure message is in the message list.
ContinuedAfterFailure ==
    /\ iteration = 2
    /\ Count(events, "iteration_start") = 2
    /\ \E j \in Positions(events, "tool_result") :
           events[j].isError /\ events[j].toolResult = Boom
    /\ \E i \in 1..Len(messages) :
           /\ messages[i].kind \in {"tool-result", "tool_result"}
           /\ messages[i].payload.result = Boom
    /\ Count(events, "tool_result") = 1

-----------------------------------------------------------------------------
(* The end of a turn.                                                      *)

\* The turn is over and the model never failed in it.
EndedWithoutFailure == pc = "done" /\ Count(events, "error") = 0

\* C18: a turn that ends without a model failure ends with exactly one
\* complete event, the last event, whose totalIterations is the number of
\* iteration_start events of the turn; a turn that used up maxIterations
\* ends so too, with totalIterations = maxIterations.
OneCompleteLast ==
    EndedWithoutFailure =>
        /\ EndsWith(events, "complete")
        /\ Count(events, "complete") = 1
        /\ events[Len(events)].iteration = Count(events, "iteration_start")
        /\ (iteration >= maxIterations =>
                events[Len(events)].iteration = maxIterations)

\* The turn used up maxIterations with a tool call in its last iteration
\* and ended with complete and without an error event.
ExhaustedThenComplete ==
    /\ EndedWithoutFailure
    /\ iteration = maxIterations
    /\ maxIterations > 1
    /\ Count(LastIteration, "tool_result") > 0
    /\ Count(LastIteration, "immediate_result") = 0
    /\ EndsWith(events, "complete")

-----------------------------------------------------------------------------
(* The caller of chatStream. chatStream is an async generator: its body    *)
(* runs only while a next() of the caller is unanswered, from the yield it *)
(* was suspended at to the next yield. An engine step of the model is the  *)
(* code after the last yielded event together with the events yielded      *)
(* next, so the step is taken once the caller has asked for more events    *)
(* than were yielded.                                                      *)

\* A producer that runs on whether or not an event is asked for, as one
\* that pushes its events to a callback does.
RunsAhead == TRUE

\* The generator has a next() to answer.
Resumed == consumer.drains \/ consumer.pulled > Len(events)

\* A caller that calls next() by hand, one call at a time.
ByHand == [pulled |-> 0, stopped |-> FALSE, drains |-> FALSE]

\* next(): asked for once the event before has arrived.
Pull ==
    /\ ~consumer.drains
    /\ ~consumer.stopped
    /\ pc # "done"
    /\ consumer.pulled <= Len(events)
    /\ consumer' = [consumer EXCEPT !.pulled = @ + 1]
    /\ UNCHANGED <<engine, maxIterations, matchers, parallel,
                   enableThinkingPhase, other, modelStub,
                   allowedTools, link, iteration, pc, events, messages, now,
                   stream, pb, ag, calls>>

\* The caller calls next() no more.
StopPulling ==
    /\ ~consumer.drains
    /\ ~consumer.stopped
    /\ consumer' = [consumer EXCEPT !.stopped = TRUE]
    /\ UNCHANGED <<engine, maxIterations, matchers, parallel,
                   enableThinkingPhase, other, modelStub,
                   allowedTools, link, iteration, pc, events, messages, now,
                   stream, pb, ag, calls>>

InitCancel ==
    /\ engine \in {"native", "prompt"}
    /\ maxIterations = 2
    /\ matchers = <<>>
    /\ parallel \in IF engine = "native" THEN BOOLEAN ELSE {TRUE}
    /\ modelStub = Stub(IF engine = "native" THEN {<<>>} ELSE {CallText},
                        {[k \in 1..MaxCalls |-> Request(k)]}, {Ok}, {Boom})
    /\ link = NoLink
    /\ allowedTools = {}
    /\ enableThinkingPhase = FALSE
    /\ consumer = ByHand
    /\ other = NoTurn
    /\ iteration = 0
    /\ pc = "loop"
    /\ events = <<>>
    /\ messages = InitialMessages
    /\ now = 1
    /\ stream = NoStream
    /\ pb = NewIteration
    /\ ag = NewAgentIteration
    /\ calls = <<>>

NextCancel ==
    \/ Pull
    \/ StopPulling
    \/ Resumed /\ PIterationStart
    \/ Resumed /\ PTextDelta
    \/ Resumed /\ PFinish
    \/ Resumed /\ PAfterStream
    \/ Resumed /\ PToolReturn
    \/ Resumed /\ PLoopExit
    \/ Resumed /\ PComplete
    \/ Resumed /\ AIterationStart
    \/ Resumed /\ AToolCallChunk
    \/ Resumed /\ AFinish
    \/ Resumed /\ AAfterStream
    \/ Resumed /\ AParallelReturn
    \/ Resumed /\ AParallelDone
    \/ Resumed /\ ASerialReturn
    \/ Resumed /\ ALoopExit
    \/ Resumed /\ AComplete

SpecCancel == InitCancel /\ [][NextCancel]_vars

\* The caller has stopped and its last next() was answered.
Cancelled(c, evs) == c.stopped /\ ~(c.pulled > Len(evs))

\* The model invocations made: streamText is called when the generator
\* is resumed after ITERATION_START.
ModelInvocations(c, evs, iter) ==
    IF ~(c.pulled > Len(evs)) /\ EndsWith(evs, "iteration_start")
    THEN iter - 1 ELSE iter

\* The invocations dispatched in this iteration: callTool is called when
\* the generator is resumed after the event before it.
Dispatched(c, evs, cs) ==
    IF c.pulled > Len(evs)
    THEN {k \in 1..Len(cs) : cs[k].state \in {"running", "returned"}}
    ELSE {k \in 1..Len(cs) : cs[k].state = "returned"}

\* C19: once the caller has stopped pulling, the turn invokes the model no
\* more, starts no iteration and dispatches no tool invocation.
NothingNewAfterStop ==
    [][Cancelled(consumer, events) =>
          /\ ModelInvocations(consumer', events', iteration')
                 = ModelInvocations(consumer, events, iteration)
          /\ Count(events', "iteration_start") = Count(events, "iteration_start")
          /\ (iteration' = iteration =>
                 Dispatched(consumer', events', calls')
                     \subseteq Dispatched(consumer, events, calls))]_vars

\* The caller stopped after the tool_executing events of the first
\* iteration: the calls are never dispatched and the turn never goes on.
StoppedBeforeDispatch ==
    /\ Cancelled(consumer, events)
    /\ consumer.pulled = Len(events)
    /\ EndsWith(events, "tool_executing")
    /\ iteration = 1
    /\ Dispatched(consumer, events, calls) = {}
    /\ pc # "done"

-----------------------------------------------------------------------------
(* Immediate-result matching: turns of the native engine with one call,    *)
(* over matcher lists and tool results of every shape.                     *)

JNull == [t |-> "null", v |-> <<>>]

JBool(b) == [t |-> "bool", v |-> b]

TypeKey == <<"t", "y", "p", "e">>

IdKey == <<"i", "d">>

DataKey == <<"d", "a", "t", "a">>

\* {id: 7}
IdMatcher == IdKey :> JNum(7)

\* {type: 'card', id: 7}
CardIdMatcher == CardMatcher @@ IdMatcher

\* {data: {}}
DataMatcher == DataKey :> EmptyObj

MatcherLists ==
    {<<>>, <<CardMatcher>>, <<CardIdMatcher>>, <<IdMatcher, CardMatcher>>,
     <<DataMatcher>>}

\* {type: 'list', id: 7}
ListObj == JObj((TypeKey :> JStr(<<"l", "i", "s", "t">>)) @@ IdMatcher)

\* {type: 'card', id: '7'}
CardStringId == JObj(CardMatcher @@ (IdKey :> JStr(<<"7">>)))

\* {data: {}}
DataObj == JObj(DataMatcher)

\* The text {"id":"7","type":"card"}
CardStringIdText ==
    JStr(
    <<"{", "\"", "i", "d", "\"", ":", "\"", "7", "\"", ",", "\"", "t", "y",
      "p", "e", "\"", ":", "\"", "c", "a", "r", "d", "\"", "}">>)

\* The text "card", a JSON string.
QuotedCardText == JStr(<<"\"", "c", "a", "r", "d", "\"">>)

\* The text {"type":"card" without its closing brace.
OpenCardText ==
    JStr(
    <<"{", "\"", "t", "y", "p", "e", "\"", ":", "\"", "c", "a", "r", "d",
      "\"">>)

\* The text null
NullText == JStr(<<"n", "u", "l", "l">>)

ToolResults ==
    {Ok, Card, CardText, JNum(7), JNull, JBool(TRUE), EmptyObj,
     JObj(CardMatcher), JObj(IdMatcher), ListObj, CardStringId, DataObj,
     CardStringIdText, QuotedCardText, OpenCardText, NullText}

InitMatch ==
    /\ engine = "native"
    /\ maxIterations = 2
    /\ matchers \in MatcherLists
    /\ parallel = FALSE
    /\ modelStub = Stub({<<>>}, {<<Request(1)>>}, ToolResults, {CardText})
    /\ TurnStart

NextMatch ==
    \/ AIterationStart
    \/ AToolCallChunk
    \/ AFinish
    \/ AAfterStream
    \/ ASerialReturn
    \/ ALoopExit
    \/ AComplete

SpecMatch == InitMatch /\ [][NextMatch]_vars

\* The objects a result stands for: itself when it is an object, what its
\* text parses to when that is an object, and nothing otherwise.
AsObject(result) ==
    IF result.t = "obj" THEN {result}
    ELSE IF result.t = "str" /\ JsonParse(result.v).ok
            /\ JsonParse(result.v).val.t = "obj"
    THEN {JsonParse(result.v).val}
    ELSE {}

\* ===: equal numbers, strings, booleans or nulls; two objects never.
StrictlyEqual(a, b) == a.t = b.t /\ a.t # "obj" /\ a.v = b.v

\* Some matcher has every one of its keys in the object with a strictly
\* equal value.
SomeMatcherMet(ms, result) ==
    \E obj \in AsObject(result), i \in 1..Len(ms) :
        \A key \in DOMAIN ms[i] :
            key \in DOMAIN obj.v /\ StrictlyEqual(obj.v[key], ms[i][key])

\* The calls whose invocation returned a result.
ReturnedOk == {k \in 1..Len(calls) : calls[k].state = "returned" /\ ~calls[k].isError}

Matched(k) ==
    \E j \in Positions(events, "immediate_result") :
        events[j].toolCallId = calls[k].toolCallId

\* C21: matchImmediateResult(result) is true iff some configured matcher
\* has every one of its keys in the result, taken as its parsed JSON object
\* when it is a string and as itself when it is an object, with a strictly
\* equal value; a result that is no object matches nothing, and nothing
\* matches without matchers.
MatchIffSomeMatcherMet ==
    /\ \A r \in modelStub.results :
           matchImmediateResult(r) <=> SomeMatcherMet(matchers, r)
    /\ \A k \in ReturnedOk :
           Matched(k) <=> SomeMatcherMet(matchers, calls[k].result)
    /\ \A k \in ReturnedOk :
           calls[k].result.t \notin {"obj", "str"} => ~Matched(k)
    /\ matchers = <<>> => Count(events, "immediate_result") = 0

\* A result text was parsed and met the second of two matchers, which
\* the empty object and the number 7 do not meet.
TextMetSecondMatcher ==
    /\ Len(matchers) = 2
    /\ \E k \in ReturnedOk : calls[k].result = CardText /\ Matched(k)
    /\ ~matchImmediateResult(EmptyObj)
    /\ ~matchImmediateResult(JNum(7))

-----------------------------------------------------------------------------
(* The flush at the end of the stream: responses of the text-convention    *)
(* engine without a tool call or a checklist, some shorter than the seven  *)
(* characters the direct-reply test waits for, cut into chunks at any      *)
(* boundaries.                                                             *)

\* hello world
HelloWorld == Hello \o World

\* <think>hm, never closed
OpenThinkText == <<"<", "t", "h", "i", "n", "k", ">", "h", "m">>

\* hello a<b: the < holds the text back until the stream ends
HeldText == Hello \o <<"a", "<", "b">>

\* Yes.
YesText == <<"Y", "e", "s", ".">>

FlushTexts == {Preamble, YesText, HelloWorld, OpenThinkText, HeldText}

InitFlush ==
    /\ engine = "prompt"
    /\ maxIterations = 1
    /\ matchers = <<>>
    /\ parallel = TRUE
    /\ modelStub = [Stub(FlushTexts, {<<>>}, {}, {}) EXCEPT
                       !.chunkSizes = 1..Len(HelloWorld)]
    /\ TurnStart

NextFlush ==
    \/ PIterationStart
    \/ PTextDelta
    \/ PFinish
    \/ PAfterStream
    \/ PComplete

SpecFlush == InitFlush /\ [][NextFlush]_vars

\* The response opens a <think> block.
OpensThink(text) == StartsAt(text, ThinkOpen, 0)

\* C22: at the end of the stream the buffered content has been flushed:
\* the text of a response outside a <think> block has been emitted as
\* text_delta between text_start and text_end, whatever its length, and
\* the content of a <think> block left open as thinking_delta followed by
\* thinking_end.
FlushedAtStreamEnd ==
    stream.status = "finished" =>
        IF OpensThink(pb.fullResponse)
        THEN /\ ContentOf(events, "thinking_delta")
                    = SubstringFrom(pb.fullResponse, Len(ThinkOpen))
             /\ Count(events, "thinking_end") = 1
             /\ Before(events, "thinking_delta", "thinking_end")
        ELSE /\ ContentOf(events, "text_delta") = pb.fullResponse
             /\ Count(events, "text_start") = 1
             /\ Count(events, "text_end") = 1
             /\ Before(events, "text_start", "text_delta")
             /\ Before(events, "text_delta", "text_end")

-----------------------------------------------------------------------------
(* Tool-call spans whose body decodes to no call, delivered in chunks cut  *)
(* at any boundaries.                                                      *)

\* <tool_call>oops</tool_call>
NotJsonSpan == ToolCallOpen \o <<"o", "o", "p", "s">> \o ToolCallClose

\* <tool_call>{"x":"y"}</tool_call>: an object without a name
NoNameSpan ==
    ToolCallOpen \o <<"{", "\"", "x", "\"", ":", "\"", "y", "\"", "}">>
        \o ToolCallClose

\* hello <tool_call>oops</tool_call>
HelloNotJsonSpan == Hello \o NotJsonSpan

UndecodableTexts == {NotJsonSpan, NoNameSpan, HelloNotJsonSpan}

InitUndecodable ==
    /\ engine = "prompt"
    /\ maxIterations = 2
    /\ matchers = <<>>
    /\ parallel = TRUE
    /\ modelStub = [Stub(UndecodableTexts, {<<>>}, {Ok}, {Boom}) EXCEPT
                       !.chunkSizes = 1..Len(HelloNotJsonSpan)]
    /\ TurnStart

NextUndecodable ==
    \/ PIterationStart
    \/ PTextDelta
    \/ PFinish
    \/ PAfterStream
    \/ PComplete

SpecUndecodable == InitUndecodable /\ [][NextUndecodable]_vars

\* The text of the response outside its tool-call span.
OutsideSpan(text) ==
    IF IndexOf(text, ToolCallOpen) = -1 THEN text
    ELSE Substring(text, 0, IndexOf(text, ToolCallOpen))

\* The response the iteration has received so far, and what is to come.
WholeResponse == pb.fullResponse \o stream.text

\* C23: a tool-call span whose body no strategy decodes is treated as
\* absent: no tool_call_start and no error event, no character of the span
\* in a text_delta, and the iteration ends without a call, so that the turn
\* completes.
UndecodableSpanIsAbsent ==
    /\ Count(events, "tool_call_start") = 0
    /\ Count(events, "error") = 0
    /\ Count(events, "tool_executing") = 0
    /\ \E n \in 0..Len(OutsideSpan(WholeResponse)) :
           ContentOf(events, "text_delta")
               = SubSeq(OutsideSpan(WholeResponse), 1, n)
    /\ stream.status = "finished" =>
           ContentOf(events, "text_delta") = OutsideSpan(WholeResponse)
    /\ pc = "done" =>
           /\ EndsWith(events, "complete")
           /\ Count(events, "iteration_start") = 1

-----------------------------------------------------------------------------
(* Calls of a provider that may stream them: each call arrives as one      *)
(* tool-call chunk, or is announced by tool-call-streaming-start, with     *)
(* argument deltas, before the tool-call chunk of the same id.             *)

InitStreaming ==
    /\ engine = "native"
    /\ maxIterations = 2
    /\ matchers = <<>>
    /\ parallel \in BOOLEAN
    /\ modelStub = [Stub({<<>>}, Plans, {Ok}, {Boom}) EXCEPT !.streaming = TRUE]
    /\ TurnStart

NextStreaming ==
    \/ AIterationStart
    \/ AToolCallStreamingStart
    \/ AToolCallDelta
    \/ AToolCallChunk
    \/ AFinish
    \/ AAfterStream
    \/ AParallelReturn
    \/ AParallelDone
    \/ ASerialReturn
    \/ ALoopExit
    \/ AComplete

SpecStreaming == InitStreaming /\ [][NextStreaming]_vars

\* The events of a type that carry the id, in a sequence of events.
WithId(evs, type, id) ==
    SelectSeq(evs, LAMBDA e : e.type = type /\ e.toolCallId = id)

\* C24: every call announced by a tool_call_start is consumed exactly
\* once: when its iteration has ended the tool was invoked once, and one
\* tool_executing and one tool_result with its id follow the announcement
\* in the same iteration, whether the call came as one tool-call chunk or
\* was announced by tool-call-streaming-start first.
AnnouncedCallConsumedOnce ==
    EndsWith(events, "iteration_end") =>
        \A j \in Positions(LastIteration, "tool_call_start") :
            /\ Len(WithId(LastIteration, "tool_call_start",
                          LastIteration[j].toolCallId)) = 1
            /\ Len(WithId(LastIteration, "tool_executing",
                          LastIteration[j].toolCallId)) = 1
            /\ Len(WithId(LastIteration, "tool_result",
                          LastIteration[j].toolCallId)) = 1
            /\ Cardinality({k \in 1..Len(calls) :
                               /\ calls[k].toolCallId = LastIteration[j].toolCallId
                               /\ calls[k].state = "returned"}) = 1

-----------------------------------------------------------------------------
(* MCPLink.setModel between construction and the turn.                     *)

\* setModel(model): the model is replaced and the native Agent is created
\* again from it; detectedNativeSupport and the PromptBasedAgent stay.
LSetModel ==
    /\ pc = "idle"
    /\ \E modelId \in ModelIds :
           /\ modelId # link.modelId
           /\ link' = [link EXCEPT
                           !.modelId = modelId,
                           !.agent = Instance(link.systemPrompt, modelId)]
    /\ UNCHANGED <<engine, maxIterations, matchers, parallel,
                   enableThinkingPhase, other, modelStub,
                   allowedTools, consumer, iteration, pc, events, messages,
                   now, stream, pb, ag, calls>>

SetModelConfigs ==
    [usePromptBasedTools : {"true", "false", "unset"},
     modelName : {<<>>, DeepSeek},
     modelId : ModelIds]

InitSetModel ==
    /\ \E cfg \in SetModelConfigs : link = Construct(cfg)
    /\ engine = "none"
    /\ maxIterations = 1
    /\ matchers = <<>>
    /\ parallel = TRUE
    /\ modelStub = Stub({Preamble}, {<<>>}, {Ok}, {Boom})
    /\ allowedTools = {}
    /\ enableThinkingPhase = FALSE
    /\ consumer = ForAwait
    /\ other = NoTurn
    /\ iteration = 0
    /\ pc = "idle"
    /\ events = <<>>
    /\ messages = InitialMessages
    /\ now = 1
    /\ stream = NoStream
    /\ pb = NewIteration
    /\ ag = NewAgentIteration
    /\ calls = <<>>

NextSetModel ==
    \/ LSetModel
    \/ LChatStream
    \/ PIterationStart
    \/ PTextDelta
    \/ PFinish
    \/ PAfterStream
    \/ PComplete
    \/ AIterationStart
    \/ ATextDelta
    \/ AFinish
    \/ AAfterStream
    \/ AComplete

SpecSetModel == InitSetModel /\ [][NextSetModel]_vars

\* C25: the mode getToolCallingMode reports, and the engine a turn runs,
\* is the classification of the model the MCPLink holds now, the one given
\* to setModel included, not that of the model given at construction.
ModeFollowsSetModel ==
    /\ link.detectedNativeSupport = DetectedNativeSupport(link)
    /\ engine # "none" =>
           engine = IF DetectedNativeSupport(link) THEN "native" ELSE "prompt"

-----------------------------------------------------------------------------
(* The ids of the calls of a turn.                                         *)

\* C26: the toolCallId values of the tool_call_start events of a turn are
\* pairwise distinct, whatever the clock does between two iterations.
CallIdsDistinct ==
    \A i, j \in Positions(events, "tool_call_start") :
        i # j => events[i].toolCallId # events[j].toolCallId

-----------------------------------------------------------------------------
(* Checklist updates: turns of two iterations in which the model writes a  *)
(* checklist, a tool call and <todo_update> directives, delivered in       *)
(* chunks cut at any boundaries.                                           *)

\* <todo title="t">
\* - a
\* </todo>
TodoBlock == SubSeq(ChecklistAndCall, 1, 28)

\* <todo_update id="1" status="completed" result="r"/>
UpdateCompleted ==
    <<"<", "t", "o", "d", "o", "_", "u", "p", "d", "a", "t", "e", " ", "i",
      "d", "=", "\"", "1", "\"", " ", "s", "t", "a", "t", "u", "s", "=",
      "\"", "c", "o", "m", "p", "l", "e", "t", "e", "d", "\"", " ", "r",
      "e", "s", "u", "l", "t", "=", "\"", "r", "\"", "/", ">">>

\* <todo_update id="1" status="done"/>
UpdateDone ==
    <<"<", "t", "o", "d", "o", "_", "u", "p", "d", "a", "t", "e", " ", "i",
      "d", "=", "\"", "1", "\"", " ", "s", "t", "a", "t", "u", "s", "=",
      "\"", "d", "o", "n", "e", "\"", "/", ">">>

UpdateTexts ==
    {ChecklistAndCall, UpdateCompleted, TodoBlock \o UpdateCompleted,
     TodoBlock \o UpdateDone, UpdateCompleted \o TodoBlock}

InitUpdates ==
    /\ engine = "prompt"
    /\ maxIterations = 2
    /\ matchers = <<>>
    /\ parallel = TRUE
    /\ modelStub = [Stub(UpdateTexts, {<<>>}, {Ok}, {}) EXCEPT
                       !.chunkSizes = 1..Len(ChecklistAndCall)]
    /\ TurnStart

NextUpdates ==
    \/ PIterationStart
    \/ PTextDelta
    \/ PFinish
    \/ PAfterStream
    \/ PToolReturn
    \/ PLoopExit
    \/ PComplete

SpecUpdates == InitUpdates /\ [][NextUpdates]_vars

\* The ids of the checklists created before position j of the events.
TodoIdsBefore(j) ==
    {events[i].todoId : i \in {i \in Positions(events, "todo_start") : i < j}}

\* The directive of the response of the iteration, which holds at most one.
Directive == parseTodoUpdate(pb.fullResponse)

\* The todo_item_update events of the iteration.
UpdatesOfIteration == OfTypes(LastIteration, {"todo_item_update"})

\* A checklist was created in the turn before the directive of the
\* response was written: in an earlier iteration, or earlier in the response.
CreatedBeforeDirective ==
    \/ TodoIdsBefore(LastStart) # {}
    \/ /\ Includes(pb.fullResponse, TodoClose)
       /\ IndexOf(pb.fullResponse, TodoClose)
              < IndexOf(pb.fullResponse, TodoUpdateTag)

\* C27: once a checklist has been created in the turn, a well-formed
\* <todo_update> directive of a response, also of a later iteration, gives
\* exactly one todo_item_update event with the checklist's todoId and the
\* directive's item id, status and result.
UpdateAfterChecklistEmitted ==
    (/\ stream.status = "finished"
     /\ CreatedBeforeDirective
     /\ Directive.found)
        => /\ Len(UpdatesOfIteration) = 1
           /\ UpdatesOfIteration[1].todoId \in TodoIdsBefore(Len(events) + 1)
           /\ UpdatesOfIteration[1].todoItemId = Directive.id
           /\ UpdatesOfIteration[1].todoItemStatus = Directive.status
           /\ UpdatesOfIteration[1].todoItemResult = Directive.result

\* C28: no todo_item_update event is emitted in a turn before a todo_start
\* event of that turn; a <todo_update> directive seen before any checklist
\* was created is consumed from the stream and emits nothing, neither an
\* update event nor text.
NoUpdateBeforeChecklist ==
    /\ \A j \in Positions(events, "todo_item_update") :
           TodoIdsBefore(j) # {}
    /\ (/\ stream.status = "finished"
        /\ Directive.found
        /\ ~CreatedBeforeDirective)
           => /\ UpdatesOfIteration = <<>>
              /\ Concat(OfTypes(LastIteration, {"text_delta"})) = <<>>

\* A directive written before the checklist of the same response was
\* consumed: the stream has ended, the checklist exists, no update was sent.
DirectiveBeforeChecklistConsumed ==
    /\ stream.status = "finished"
    /\ pb.fullResponse = UpdateCompleted \o TodoBlock
    /\ Count(events, "todo_start") = 1
    /\ UpdatesOfIteration = <<>>

\* The values of the type TodoItemStatus.
TodoItemStatus ==
    {<<"p", "e", "n", "d", "i", "n", "g">>,
     <<"i", "n", "_", "p", "r", "o", "g", "r", "e", "s", "s">>,
     <<"c", "o", "m", "p", "l", "e", "t", "e", "d">>,
     <<"f", "a", "i", "l", "e", "d">>}

\* C29: every todo_item_add and todo_item_update event carries a
\* todoItemStatus that is one of pending, in_progress, completed, failed,
\* whatever the model wrote.
ItemStatusInType ==
    \A i \in Positions(events, "todo_item_add")
                \cup Positions(events, "todo_item_update") :
        events[i].todoItemStatus \in TodoItemStatus

-----------------------------------------------------------------------------
(* The reasoning phase of the native engine: turns of an Agent built with  *)
(* enableThinkingPhase, with the tools offered or with an allowedTools     *)
(* list that names none of them.                                           *)

\* A name no connected server exposes.
ToolU == <<"u">>

InitThinking ==
    /\ engine = "native"
    /\ maxIterations = 2
    /\ matchers = <<>>
    /\ parallel = FALSE
    /\ modelStub = [Stub({<<>>, Preamble}, {<<>>, <<Request(1)>>}, {Ok}, {Boom})
                       EXCEPT !.thinking = {<<>>, Hm}, !.chunkSizes = {1}]
    /\ link = NoLink
    /\ allowedTools \in {{}, {ToolU}}
    /\ enableThinkingPhase = TRUE
    /\ consumer = ForAwait
    /\ other = NoTurn
    /\ iteration = 0
    /\ pc = "loop"
    /\ events = <<>>
    /\ messages = InitialMessages
    /\ now = 1
    /\ stream = NoStream
    /\ pb = NewIteration
    /\ ag = NewAgentIteration
    /\ calls = <<>>

NextThinking ==
    \/ AIterationStart
    \/ AThinkingStart
    \/ AThinkingDelta
    \/ AThinkingEnd
    \/ ATextDelta
    \/ AToolCallChunk
    \/ AFinish
    \/ AAfterStream
    \/ ASerialReturn
    \/ ALoopExit
    \/ AComplete

SpecThinking == InitThinking /\ [][NextThinking]_vars

ThinkingTypes == {"thinking_start", "thinking_delta", "thinking_end"}

TextTypes == {"text_start", "text_delta", "text_end"}

\* Where the reasoning phase of the iteration ended, in LastIteration.
ThinkingEnd == Min(Positions(LastIteration, "thinking_end"))

\* What the reasoning-phase call of the iteration wrote.
ThinkingOutput == Concat(SubSeq(LastIteration, 2, ThinkingEnd - 1))

\* The events of the iteration that followed the reasoning phase.
AfterThinking == SubSeq(LastIteration, ThinkingEnd + 1, Len(LastIteration))

-----------------------------------------------------------------------------
(* Failed calls and the immediate-result matchers.                         *)

\* The tool_result events of the last iteration.
LastResults == OfTypes(LastIteration, {"tool_result"})

\* C38: an immediate_result event follows the tool_result of its own call,
\* and that call did not fail, also when the failure message parses to an
\* object that meets a matcher; and a turn of the native engine never ends
\* before its last permitted iteration when every call of its last
\* iteration failed.
FailedCallNeverImmediate ==
    /\ \A j \in Positions(events, "immediate_result") :
           /\ j > 1
           /\ events[j - 1].type = "tool_result"
           /\ events[j - 1].toolCallId = events[j].toolCallId
           /\ ~events[j - 1].isError
    /\ (/\ engine = "native"
        /\ pc = "done"
        /\ LastResults # <<>>
        /\ \A k \in 1..Len(LastResults) : LastResults[k].isError)
           => /\ Count(events, "iteration_start") = maxIterations
              /\ Count(LastIteration, "immediate_result") = 0

\* A call of the first iteration failed with a message that parses to an
\* object meeting the matcher, and the second iteration has started.
FailedMatchContinued ==
    /\ engine = "native"
    /\ Len(matchers) > 0
    /\ Count(events, "iteration_start") = 2
    /\ Count(events, "immediate_result") = 0
    /\ \E j \in Positions(events, "tool_result") :
           events[j].isError /\ MatchesCard(events[j].toolResult)

-----------------------------------------------------------------------------
(* Responses of the text convention that hold several tool-call blocks.    *)

TwoBlocks == CallText \o CallTextT

BlocksAroundText == CallTextT \o Preamble \o CallText

InitBlocks ==
    /\ engine = "prompt"
    /\ maxIterations = 2
    /\ matchers = <<>>
    /\ parallel = TRUE
    /\ modelStub = [Stub({Preamble, CallText, TwoBlocks, BlocksAroundText},
                         {<<>>}, {Ok}, {Boom})
                       EXCEPT !.chunkSizes = 1..(Len(ToolCallOpen) + 1)]
    /\ TurnStart

NextBlocks ==
    \/ PIterationStart
    \/ PTextDelta
    \/ PFinish
    \/ PAfterStream
    \/ PToolReturn
    \/ PLoopExit
    \/ PComplete

SpecBlocks == InitBlocks /\ [][NextBlocks]_vars

\* The iteration has ended: its last event is iteration_end.
IterationEnded ==
    LastIteration # <<>>
        /\ LastIteration[Len(LastIteration)].type = "iteration_end"

\* C39: an iteration of the text-convention engine executes at most one
\* tool call; when the full response decodes to a call the iteration has
\* exactly one tool_call_start, one tool_executing and one tool_result, all
\* of the decoded call, and one invocation, also when the response holds
\* several tool-call blocks; otherwise it has none.
OneCallPerIteration ==
    engine = "prompt" =>
        /\ Len(calls) <= 1
        /\ Count(LastIteration, "tool_call_start") <= 1
        /\ Count(LastIteration, "tool_executing") <= 1
        /\ Count(LastIteration, "tool_result") <= 1
        /\ IterationEnded =>
              IF parseToolCall(pb.fullResponse).found
              THEN /\ Len(calls) = 1
                   /\ \A type \in {"tool_call_start", "tool_executing",
                                   "tool_result"} :
                          /\ Count(LastIteration, type) = 1
                          /\ OfTypes(LastIteration, {type})[1].toolName
                                 = parseToolCall(pb.fullResponse).name
              ELSE /\ calls = <<>>
                   /\ OfTypes(LastIteration,
                              {"tool_call_start", "tool_executing",
                               "tool_result"}) = <<>>

\* An iteration whose response held two blocks has ended with the one call
\* of the first block.
FirstOfTwoBlocksCalled ==
    /\ IterationEnded
    /\ pb.fullResponse = TwoBlocks
    /\ Count(LastIteration, "tool_result") = 1
    /\ OfTypes(LastIteration, {"tool_call_start"})[1].toolName = ToolS

-----------------------------------------------------------------------------
(* Bare JSON calls whose argument strings hold brace characters.           *)

\* {"name":"s","arguments":{"q":"}"}}
CloseBraceText ==
    <<"{", "\"", "n", "a", "m", "e", "\"", ":", "\"", "s", "\"", ",", "\"",
      "a", "r", "g", "u", "m", "e", "n", "t", "s", "\"", ":", "{", "\"",
      "q", "\"", ":", "\"", "}", "\"", "}", "}">>

\* {"name":"s","arguments":{"q":"{"}}
OpenBraceText ==
    <<"{", "\"", "n", "a", "m", "e", "\"", ":", "\"", "s", "\"", ",", "\"",
      "a", "r", "g", "u", "m", "e", "n", "t", "s", "\"", ":", "{", "\"",
      "q", "\"", ":", "\"", "{", "\"", "}", "}">>

InitBraces ==
    /\ engine = "prompt"
    /\ maxIterations = 2
    /\ matchers = <<>>
    /\ parallel = TRUE
    /\ modelStub = [Stub({CloseBraceText, OpenBraceText}, {<<>>}, {Ok}, {Boom})
                       EXCEPT !.chunkSizes = 1..Len(CloseBraceText)]
    /\ TurnStart

NextBraces ==
    \/ PIterationStart
    \/ PTextDelta
    \/ PFinish
    \/ PAfterStream
    \/ PToolReturn
    \/ PLoopExit
    \/ PComplete

SpecBraces == InitBraces /\ [][NextBraces]_vars

\* C40: a bare JSON call whose argument string values hold '{' or '}' is
\* consumed up to the brace that closes the object: no character of it is
\* emitted as text_delta.
BraceSpanConsumed == Count(events, "text_delta") = 0

-----------------------------------------------------------------------------
(* The text events of an iteration.                                        *)

\* C34: within every iteration text_start is emitted at most once, every
\* text_delta lies after text_start and before text_end, and once the
\* iteration has ended text_end has been emitted exactly once if text_start
\* was emitted and not at all otherwise.
TextEventsBracketed ==
    /\ Count(LastIteration, "text_start") <= 1
    /\ Count(LastIteration, "text_end") <= Count(LastIteration, "text_start")
    /\ \A i \in Positions(LastIteration, "text_delta") :
           /\ Count(SubSeq(LastIteration, 1, i), "text_start") = 1
           /\ Count(SubSeq(LastIteration, 1, i), "text_end") = 0
    /\ IterationEnded =>
           Count(LastIteration, "text_end") = Count(LastIteration, "text_start")

-----------------------------------------------------------------------------
(* Text emission and the chunking of the model text.                       *)

\* The characters that may start a marker.
MarkerChars == {"<", Bq, "{"}

\* Model text with a blank after the first seven characters: "goodbye you".
GoodbyeYou ==
    <<"g", "o", "o", "d", "b", "y", "e", " ", "y", "o", "u">>

\* Model text of two lines: "goodbye," and "you".
TwoLines ==
    <<"g", "o", "o", "d", "b", "y", "e", ",", "\n", "y", "o", "u">>

InitChunking ==
    /\ engine = "prompt"
    /\ maxIterations = 1
    /\ matchers = <<>>
    /\ parallel = TRUE
    /\ modelStub = [Stub({GoodbyeYou, TwoLines, HelloWorld}, {<<>>}, {Ok}, {Boom})
                       EXCEPT !.chunkSizes = 1..Len(HelloWorld)]
    /\ TurnStart

NextChunking ==
    \/ PIterationStart
    \/ PTextDelta
    \/ PFinish
    \/ PAfterStream
    \/ PComplete

SpecChunking == InitChunking /\ [][NextChunking]_vars

\* C35: for model text without marker characters, once the stream of the
\* iteration has ended the text_delta contents of the iteration,
\* concatenated, are the model text, however the text was cut into chunks.
TextIndependentOfChunking ==
    (/\ engine = "prompt"
     /\ stream.status = "finished"
     /\ \A i \in 1..Len(pb.fullResponse) : pb.fullResponse[i] \notin MarkerChars)
        => Concat(OfTypes(LastIteration, {"text_delta"})) = pb.fullResponse

-----------------------------------------------------------------------------
(* The thinking events of an iteration.                                    *)

\* <think>a</think>bcdefgh
OneThink ==
    <<"<", "t", "h", "i", "n", "k", ">", "a", "<", "/", "t", "h", "i", "n",
      "k", ">", "b", "c", "d", "e", "f", "g", "h">>

\* <think>a</think>b<think>c</think>d
TwoThinks ==
    <<"<", "t", "h", "i", "n", "k", ">", "a", "<", "/", "t", "h", "i", "n",
      "k", ">", "b", "<", "t", "h", "i", "n", "k", ">", "c", "<", "/", "t",
      "h", "i", "n", "k", ">", "d">>

\* Turns of one iteration in which the model may deliver a native
\* reasoning chunk and text with no, one or two <think> blocks.
InitThinkMix ==
    /\ engine \in {"native", "prompt"}
    /\ maxIterations = 1
    /\ matchers = <<>>
    /\ parallel = TRUE
    /\ modelStub = [Stub({HelloWorld, OneThink, TwoThinks}, {<<>>}, {Ok}, {Boom})
                       EXCEPT !.reasoning = 1, !.reasoningDeltas = {Hm},
                              !.chunkSizes = {1, Len(ThinkOpen)}]
    /\ TurnStart

NextThinkMix ==
    \/ PIterationStart
    \/ PReasoningChunk
    \/ PTextDelta
    \/ PFinish
    \/ PAfterStream
    \/ PComplete
    \/ AIterationStart
    \/ AReasoningChunk
    \/ ATextDelta
    \/ AFinish
    \/ AAfterStream
    \/ AComplete

SpecThinkMix == InitThinkMix /\ [][NextThinkMix]_vars

\* The number of thinking blocks open after the events evs.
OpenBlocks(evs) ==
    Count(evs, "thinking_start") - Count(evs, "thinking_end")

\* C33: within every iteration thinking_start and thinking_end alternate:
\* a thinking_start is emitted only while no block is open, a thinking_end
\* and a thinking_delta only while one is open, and no block is open once
\* the iteration has ended.
ThinkingEventsAlternate ==
    /\ \A i \in 1..Len(LastIteration) :
           LET open == OpenBlocks(SubSeq(LastIteration, 1, i - 1)) IN
               /\ LastIteration[i].type = "thinking_start" => open = 0
               /\ LastIteration[i].type = "thinking_end" => open = 1
               /\ LastIteration[i].type = "thinking_delta" => open = 1
    /\ IterationEnded => OpenBlocks(LastIteration) = 0

-----------------------------------------------------------------------------
(* The running message list of a turn of the native engine.                *)

\* The positions of the assistant messages appended by iterations.
AssistantAt == {a \in 1..Len(messages) : messages[a].kind = "content"}

\* The assistant message at a is followed by one tool message per call of
\* it, in call order, each with the id of its call.
GroupAt(a) ==
    LET cs == messages[a].payload.calls IN
        /\ Len(cs) >= 1
        /\ a + Len(cs) <= Len(messages)
        /\ \A k \in 1..Len(cs) :
               /\ messages[a + k].role = "tool"
               /\ messages[a + k].payload.toolCallId = cs[k].toolCallId
               /\ messages[a + k].payload.toolName = cs[k].toolName

\* The list is [system, user] and then groups only.
GroupsOnly ==
    /\ Len(messages) >= Len(InitialMessages)
    /\ SubSeq(messages, 1, Len(InitialMessages)) = InitialMessages
    /\ \A a \in AssistantAt : GroupAt(a)
    /\ \A k \in (Len(InitialMessages) + 1)..Len(messages) :
           \/ k \in AssistantAt
           \/ /\ messages[k].role = "tool"
              /\ \E a \in AssistantAt :
                     a < k /\ k <= a + Len(messages[a].payload.calls)

MaxOf(S) == CHOOSE x \in S : \A y \in S : x >= y

\* The iterations of the turn that have ended, had tool results and no
\* immediate result.
ToolIterationsEnded ==
    Cardinality(
        {e \in Positions(events, "iteration_end") :
            LET before == {s \in Positions(events, "iteration_start") : s < e}
                it == SubSeq(events, MaxOf(before), e)
            IN  /\ Count(it, "tool_result") > 0
                /\ Count(it, "immediate_result") = 0})

\* A step leaves the list alone or appends one group to it.
AppendsGroup ==
    /\ Len(messages') >= Len(messages)
    /\ SubSeq(messages', 1, Len(messages)) = messages
    /\ messages' # messages =>
           /\ messages'[Len(messages) + 1].kind = "content"
           /\ Len(messages') =
                  Len(messages) + 1
                      + Len(messages'[Len(messages) + 1].payload.calls)

-----------------------------------------------------------------------------
(* setSystemPrompt and setModel, then a turn.                              *)

\* Two system prompts.
PromptA == <<"a">>

PromptB == <<"b">>

\* setSystemPrompt(prompt): config.systemPrompt is set and the Agent is
\* built again; the PromptBasedAgent is left as it is.
LSetSystemPrompt ==
    /\ pc = "idle"
    /\ \E prompt \in {PromptA, PromptB} :
           /\ prompt # link.systemPrompt
           /\ link' = [link EXCEPT
                           !.systemPrompt = prompt,
                           !.agent = Instance(prompt, link.modelId)]
    /\ UNCHANGED <<engine, maxIterations, matchers, parallel,
                   enableThinkingPhase, other, modelStub,
                   allowedTools, consumer, iteration, pc, events, messages,
                   now, stream, pb, ag, calls>>

SetterConfigs ==
    [usePromptBasedTools : {"true", "false"},
     modelName : {<<>>},
     modelId : {Gpt4o},
     systemPrompt : {<<>>, PromptA}]

InitSetters ==
    /\ \E cfg \in SetterConfigs : link = Construct(cfg)
    /\ engine = "none"
    /\ maxIterations = 1
    /\ matchers = <<>>
    /\ parallel = TRUE
    /\ modelStub = Stub({Preamble}, {<<>>}, {Ok}, {Boom})
    /\ allowedTools = {}
    /\ enableThinkingPhase = FALSE
    /\ consumer = ForAwait
    /\ other = NoTurn
    /\ iteration = 0
    /\ pc = "idle"
    /\ events = <<>>
    /\ messages = InitialMessages
    /\ now = 1
    /\ stream = NoStream
    /\ pb = NewIteration
    /\ ag = NewAgentIteration
    /\ calls = <<>>

NextSetters ==
    \/ LSetSystemPrompt
    \/ LSetModel
    \/ LChatStream
    \/ PIterationStart
    \/ PTextDelta
    \/ PFinish
    \/ PAfterStream
    \/ PComplete
    \/ AIterationStart
    \/ ATextDelta
    \/ AFinish
    \/ AAfterStream
    \/ AComplete

SpecSetters == InitSetters /\ [][NextSetters]_vars

\* The engine instance that serves the turn.
Serving == IF engine = "native" THEN link.agent ELSE link.promptBasedAgent

\* C36: a turn runs with the system prompt and the model the MCPLink holds,
\* those given to setSystemPrompt and setModel included, whichever engine
\* serves it: the serving instance was built with them and the system
\* message of the turn is made of that prompt.
SettersReachServingEngine ==
    engine \in {"native", "prompt"} =>
        /\ Serving.systemPrompt = link.systemPrompt
        /\ Serving.model = link.modelId
        /\ messages[1].payload =
               IF engine = "native" THEN link.systemPrompt
               ELSE buildSystemPrompt(link.systemPrompt)

-----------------------------------------------------------------------------
(* Concurrent callers of an MCPLink that is not initialized yet.           *)

\* A caller enters initialize, chat or chatStream. The code up to the first
\* await runs in one step: the test of this.initialized and, when it is
\* false, the invocation of mcpManager.startAll.
LCall(c) ==
    /\ link.start.callers[c].at = "idle"
    /\ \E entry \in {"initialize", "chat", "chatStream"} :
           link' = [link EXCEPT
                       !.start.callers[c] =
                           [entry |-> entry,
                            at |-> IF link.initialized THEN "ready"
                                   ELSE "starting"],
                       !.start.startAll =
                           IF link.initialized THEN @ ELSE @ + 1]
    /\ UNCHANGED <<engine, maxIterations, matchers, parallel,
                   enableThinkingPhase, other, modelStub,
                   allowedTools, consumer, iteration, pc, events, messages,
                   now, stream, pb, ag, calls>>

\* await this.mcpManager.startAll() has resolved: this.initialized = true.
LStarted(c) ==
    /\ link.start.callers[c].at = "starting"
    /\ link' = [link EXCEPT !.initialized = TRUE,
                            !.start.callers[c].at = "ready"]
    /\ UNCHANGED <<engine, maxIterations, matchers, parallel,
                   enableThinkingPhase, other, modelStub,
                   allowedTools, consumer, iteration, pc, events, messages,
                   now, stream, pb, ag, calls>>

\* The caller of chatStream goes on to the turn, on the engine of the mode.
LServe(c) ==
    /\ pc = "idle"
    /\ link.start.callers[c] = [entry |-> "chatStream", at |-> "ready"]
    /\ link' = [link EXCEPT !.entry = "chatStream",
                            !.start.callers[c].at = "serving"]
    /\ engine' = ToolCallingMode
    /\ messages' = TurnMessages(ToolCallingMode)
    /\ pc' = "loop"
    /\ UNCHANGED <<maxIterations, matchers, parallel,
                   enableThinkingPhase, other, modelStub, allowedTools,
                   consumer, iteration, events, now, stream, pb, ag, calls>>

\* close(): stopAll, this.initialized = false.
LClose ==
    /\ ~link.start.closed
    /\ link' = [link EXCEPT !.initialized = FALSE, !.start.closed = TRUE]
    /\ UNCHANGED <<engine, maxIterations, matchers, parallel,
                   enableThinkingPhase, other, modelStub,
                   allowedTools, consumer, iteration, pc, events, messages,
                   now, stream, pb, ag, calls>>

InitStart ==
    /\ \E cfg \in SetterConfigs : link = Construct(cfg)
    /\ engine = "none"
    /\ maxIterations = 1
    /\ matchers = <<>>
    /\ parallel = TRUE
    /\ modelStub = Stub({Preamble}, {<<>>}, {Ok}, {Boom})
    /\ allowedTools = {}
    /\ enableThinkingPhase = FALSE
    /\ consumer = ForAwait
    /\ other = NoTurn
    /\ iteration = 0
    /\ pc = "idle"
    /\ events = <<>>
    /\ messages = InitialMessages
    /\ now = 1
    /\ stream = NoStream
    /\ pb = NewIteration
    /\ ag = NewAgentIteration
    /\ calls = <<>>

NextStart ==
    \/ \E c \in 1..MaxCallers : LCall(c)
    \/ \E c \in 1..MaxCallers : LStarted(c)
    \/ \E c \in 1..MaxCallers : LServe(c)
    \/ LClose
    \/ PIterationStart
    \/ PTextDelta
    \/ PFinish
    \/ PAfterStream
    \/ PComplete
    \/ AIterationStart
    \/ ATextDelta
    \/ AFinish
    \/ AAfterStream
    \/ AComplete

SpecStart == InitStart /\ [][NextStart]_vars

\* C37: under any interleaving of concurrent initialize, chat and
\* chatStream calls on an MCPLink that is not initialized yet,
\* mcpManager.startAll is invoked at most once until close is called.
StartAllAtMostOnce == ~link.start.closed => link.start.startAll <= 1

-----------------------------------------------------------------------------
(* Two calls of chatStream on one engine instance. A first call runs by    *)
(* itself to its end; then the instance is called twice with the same      *)
(* message and the two generators are resumed in any order. The model and  *)
(* the tool answer every request of a script in the same way, so that a    *)
(* call that is not disturbed yields what the first call yielded.          *)

\* The locals of the call that is running.
Running == Locals(iteration, pc, events, messages, stream, pb, ag, calls)

\* chatStream(userMessage) entered: the locals as they are declared.
Entered ==
    Locals(0, "loop", <<>>, InitialMessages, NoStream, NewIteration,
           NewAgentIteration, <<>>)

\* The call l is the one that runs.
Resume(l) ==
    /\ iteration' = l.iteration
    /\ pc' = l.pc
    /\ events' = l.events
    /\ messages' = l.messages
    /\ stream' = l.stream
    /\ pb' = l.pb
    /\ ag' = l.ag
    /\ calls' = l.calls

\* A scheduler that keeps the parse state of the call it suspends, as if
\* the parse state were a field of the instance.
SwitchKeepingParseState ==
    /\ other.peer.pc # "idle"
    /\ other' = [other EXCEPT !.peer = Running]
    /\ Resume([other.peer EXCEPT !.pb = pb, !.ag = ag])
    /\ UNCHANGED <<engine, maxIterations, matchers, parallel,
                   enableThinkingPhase, modelStub, allowedTools, link,
                   consumer, now>>

\* The generator of one call is suspended at a yield or an await and the
\* generator of the other call is resumed.
Switch ==
    /\ other.peer.pc # "idle"
    /\ other' = [other EXCEPT !.peer = Running]
    /\ Resume(other.peer)
    /\ UNCHANGED <<engine, maxIterations, matchers, parallel,
                   enableThinkingPhase, modelStub, allowedTools, link,
                   consumer, now>>

\* The first call has ended; chatStream is called twice on the instance.
CallTwice ==
    /\ pc = "done"
    /\ other = NoTurn
    /\ other' = [alone |-> Running, peer |-> Entered]
    /\ Resume(Entered)
    /\ UNCHANGED <<engine, maxIterations, matchers, parallel,
                   enableThinkingPhase, modelStub, allowedTools, link,
                   consumer, now>>

\* One answer of the model and one outcome of the tool per script: a call
\* that returns, a call that throws, two calls or a checklist with a call,
\* text alone.
Scripts(e) ==
    IF e = "native"
    THEN {Stub({<<>>}, {<<Request(1)>>}, {Ok}, {}),
          Stub({<<>>}, {<<Request(1)>>}, {}, {Boom}),
          Stub({<<>>}, {<<Request(1), Request(2)>>}, {Ok}, {}),
          Stub({Preamble}, {<<>>}, {Ok}, {})}
    ELSE {Stub({CallText}, {<<>>}, {Ok}, {}),
          Stub({CallText}, {<<>>}, {}, {Boom}),
          Stub({ChecklistAndCall}, {<<>>}, {Ok}, {}),
          Stub({Preamble}, {<<>>}, {Ok}, {})}

InitTurns ==
    /\ engine \in {"native", "prompt"}
    /\ maxIterations = 2
    /\ matchers = <<>>
    /\ parallel \in IF engine = "native" THEN BOOLEAN ELSE {TRUE}
    /\ modelStub \in Scripts(engine)
    /\ TurnStart

NextTurns ==
    \/ PIterationStart
    \/ PTextDelta
    \/ PFinish
    \/ PAfterStream
    \/ PToolReturn
    \/ PLoopExit
    \/ PComplete
    \/ AIterationStart
    \/ ATextDelta
    \/ AToolCallChunk
    \/ AFinish
    \/ AAfterStream
    \/ AParallelReturn
    \/ AParallelDone
    \/ ASerialReturn
    \/ ALoopExit
    \/ AComplete
    \/ CallTwice
    \/ Switch

SpecTurns == InitTurns /\ [][NextTurns]_vars

\* An event without the ids the engine takes from the clock.
Unstamped(e) ==
    [e EXCEPT !.toolCallId = 0, !.todoId = 0, !.todoItemId = 0]

Unstamp(evs) == [k \in 1..Len(evs) |-> Unstamped(evs[k])]

IsPrefix(s, t) == Len(s) <= Len(t) /\ s = SubSeq(t, 1, Len(s))

\* The call l has got as far as a call by itself gets, and no further: its
\* events and its messages are the first ones of the call that ran alone,
\* and at its end they are all of them, with the same iteration counter.
AsAlone(l) ==
    /\ IsPrefix(Unstamp(l.events), Unstamp(other.alone.events))
    /\ IsPrefix(l.messages, other.alone.messages)
    /\ l.iteration <= other.alone.iteration
    /\ l.pc = "done" =>
           /\ Len(l.events) = Len(other.alone.events)
           /\ l.messages = other.alone.messages
           /\ l.iteration = other.alone.iteration

\* C31: two calls of chatStream running on one engine instance do not
\* interfere: however their steps are interleaved, the events, the messages
\* and the iteration counter of each call are at every moment the ones of a
\* call that ran alone with the same answers of the model and of the tool.
TurnsDoNotInterfere ==
    other.alone.pc = "done" => AsAlone(Running) /\ AsAlone(other.peer)

\* Both calls are in flight: one awaits the tool call of its second
\* iteration while the other, resumed in between, awaits the tool call of its
\* first.
BothTurnsAwaitTheirTool ==
    /\ other.alone.pc = "done"
    /\ pc \in {"call", "parallel", "serial"}
    /\ iteration = 2
    /\ other.peer.pc \in {"call", "parallel", "serial"}
    /\ other.peer.iteration = 1
    /\ Cardinality(Positions(events, "tool_result")) = 1

====
